---- MODULE Spec2Model ----
(***************************************************************************)
(* The staleness-aware output controller of the two worker functions       *)
(*   performExtraction   (src/src/processing/shpavg.py)                    *)
(*   computeClimatology  (src/src/datasets/wrfavg.py)                      *)
(* over a file system shared by the worker slots of the process pool.      *)
(*                                                                         *)
(* One job (the argument bundle of the worker) is fixed per behaviour and  *)
(* run repeatedly: one run after the other in single-process use, or in    *)
(* several pool slots at once in parallel mode.  Every os.* call of a run  *)
(* is one step, so that runs interleave at the granularity of system calls.*)
(***************************************************************************)
EXTENDS Integers, Sequences, FiniteSets, TLC

\* ------------------------------------------------------------------ bounds
MaxRuns  == 2    \* runs started in one behaviour
MaxTouch == 1    \* modifications of source files in one behaviour
MaxAge   == 1    \* initial modification times are drawn from 0..MaxAge
MaxCalls == 2    \* calls of performExtraction that reach the loader, with one dictionary
MaxJobs  == 6    \* jobs in the batch of a driver
MaxVars  == 3    \* variables in the list given to linePlot
MaxTicks == 2    \* tick labels of an axis
MaxTickCalls == 2  \* direct calls of xTickLabels and yTickLabels on one axes

\* ------------------------------------------------------- program constants
MinSize == 1000000   \* "os.path.getsize(filepath) > 1e6"
NP      == 2         \* "NP = 2": size of the process pool

Slots == 1..NP

\* output sizes a run can produce: below and above the 1e6 threshold
OutSizes == {MinSize - 1, MinSize + 1}

\* the source's filelist (two backing files)
FileList == <<"src1.nc", "src2.nc">>

NoFile == [phase |-> "none"]

\* ------------------------------------------------------------- job bundles
\* the dataset identifiers a job is called with: the two model datasets, an observational
\* dataset with a module of its own, and two identifiers that name no dataset
Datasets == {"WRF", "CESM", "GPCC", "FOO", "foo"}

\* observational datasets: those for which a module datasets.<NAME> can be imported
Observational == {"GPCC", "CRU"}

\* modes = ('climatology','time-series')
Modes == {"climatology", "time-series"}

\* years of the source's begin_date and end_date attributes (the experiment's begindate)
SourceYears == {<<1979, 1989>>}

\* the 'period' attribute of the source a loader returns: none, or a period string
SourcePeriods ==
  {[has |-> FALSE, val |-> ""], [has |-> TRUE, val |-> "1979-1989"],
   [has |-> TRUE, val |-> "1979-1984"]}

\* performExtraction(dataset, mode, shape_name, shape_dict, dataargs, loverwrite, varlist,
\*                   lwrite, lreturn, ldebug, lparallel, pidstr, logger)
\* dataargs['period'] is None (pnone) or the integer periods[1]; years[1] is the year of
\* the experiment's begindate
\* the jobs of a batch on a WRF climatology, under every setting of the flags
PEJobs ==
  [kind : {"PE"}, loverwrite : BOOLEAN, lwrite : BOOLEAN, lreturn : BOOLEAN,
   lparallel : BOOLEAN, shape_name : {"shpavg"}, outsize : OutSizes,
   years : SourceYears, offset : {0}, pnone : {FALSE}, periods : {<<10>>},
   dataset : {"WRF"}, mode : {"climatology"},
   srcperiod : {[has |-> TRUE, val |-> "1979-1989"]}, ldebug : {FALSE}]

\* the jobs of a debug run (ldebug=True), alone and in a pool
PEDebugJobs ==
  [kind : {"PE"}, loverwrite : BOOLEAN, lwrite : {TRUE}, lreturn : {FALSE},
   lparallel : BOOLEAN, shape_name : {"shpavg"}, outsize : {MinSize + 1},
   years : SourceYears, offset : {0}, pnone : {FALSE}, periods : {<<10>>},
   dataset : {"WRF"}, mode : {"climatology"},
   srcperiod : {[has |-> TRUE, val |-> "1979-1989"]}, ldebug : {TRUE}]

\* the jobs of a single process on every dataset, mode and period (flags at their defaults)
PEArgJobs ==
  [kind : {"PE"}, loverwrite : {FALSE}, lwrite : {TRUE}, lreturn : {FALSE},
   lparallel : {FALSE}, shape_name : {"shpavg"}, outsize : {MinSize + 1},
   years : SourceYears, offset : {0}, pnone : BOOLEAN, periods : {<<10>>},
   dataset : Datasets, mode : Modes, srcperiod : SourcePeriods, ldebug : {FALSE}]

\* computeClimatology(experiment, filetype, domain, periods, offset, griddef, loverwrite,
\*                    lparallel, pidstr, logger)
\* (griddef=None, as the driver passes it; the runs of a pool batch write to different
\* files and are taken one at a time)
\* pnone: the periods argument is left at its default None
CCJob(loverwrite, outsize, offset, pnone, periods) ==
  [kind |-> "CC", loverwrite |-> loverwrite, lwrite |-> TRUE, lreturn |-> FALSE,
   lparallel |-> FALSE, shape_name |-> "", outsize |-> outsize,
   years |-> <<1979, 1989>>, offset |-> offset, pnone |-> pnone, periods |-> periods,
   dataset |-> "WRF", mode |-> "climatology", srcperiod |-> [has |-> FALSE, val |-> ""],
   ldebug |-> FALSE]

\* one period, under every setting; the driver's two periods, in either order; an offset
\* beyond the years of the source; periods left at None
CCJobs ==
  {CCJob(o, z, off, FALSE, <<1>>) : o \in BOOLEAN, z \in OutSizes, off \in {0, 5}}
  \cup {CCJob(o, MinSize + 1, off, FALSE, <<5, 10>>) : o \in BOOLEAN, off \in {0, 5}}
  \cup {CCJob(FALSE, MinSize + 1, 5, FALSE, <<10, 5>>)}
  \cup {CCJob(FALSE, MinSize + 1, 11, FALSE, <<1>>)}
  \cup {CCJob(o, MinSize + 1, off, TRUE, <<>>) : o \in BOOLEAN, off \in {0, 5}}

Jobs == PEJobs \cup PEArgJobs \cup PEDebugJobs \cup CCJobs

VARIABLES
  job,        \* the argument bundle of the job
  fs,         \* file system: path -> [mtime, size, phase, ino]
  now,        \* the clock: datetime.today(), and the time stamp of a write
  srcm,       \* modification time of each source file
  ntouch,     \* source modifications so far
  touchrun,   \* value of nruns at the latest source modification
  nruns,      \* runs started so far
  pc,         \* per slot: the statement the run is at ("idle": no run)
  rid,        \* per slot: number of the run (identifies the file it has open)
  sourceage,  \* per slot: local variable sourceage
  lskip,      \* per slot: local variable lskip
  idx,        \* per slot: position of the loop over periods (computeClimatology)
  ops,        \* per slot: calls made by the run so far, in order
  hit,        \* per slot: paths removed, created, written or renamed for the current output
  result,     \* per slot: how the latest run ended
  retval,     \* per slot: the value the latest run returned
  err,        \* per slot: the exception the latest run raised
  fs0,        \* per slot: the file system when the run started
  it0,        \* per slot: the file system when the run turned to its current output
  prev,       \* per slot: [result, retval] of the run before the current one
  sink,       \* per slot: the attributes of the sink dataset the run has made
  cargs,      \* datasets/CESM.py: the arguments of the call of a function of the module
  dirs,       \* datasets/CESM.py: the folders that exist
  cres,       \* datasets/CESM.py: what the call returned or raised
  zipped,     \* CESM.py __main__: zip(grids,experiments)
  spc,        \* CESM.py __main__: the statement the script is at ("none": not run)
  sidx,       \* CESM.py __main__: position of the loop over zipped
  heap,       \* CESM.py __main__: the GridDefinition objects made so far
  dataset,    \* CESM.py __main__: the loaded dataset, with the object its griddef refers to
  griddef,    \* CESM.py __main__: the object the local name griddef refers to (0: unbound)
  pickles,    \* CESM.py __main__: the pickle files in grid_folder
  driver,     \* batch driver: the script that runs the batch
  njobs,      \* batch driver: len(args), the number of jobs of the batch
  ndone,      \* batch driver: jobs the pool has finished
  ec,         \* batch driver: jobs that failed
  exitcode,   \* batch driver: exit status of the script (-1: still running)
  conf,       \* shpavg.py __main__: the settings of the script
  args,       \* shpavg.py __main__: the list of job packages built so far
  bpc,        \* shpavg.py __main__: position of the loops that build args
  pargs,      \* performExtraction, lines 37-152: the arguments of the call
  dargs,      \* performExtraction, lines 37-152: the keys of the caller's dataargs dictionary
  apc,        \* performExtraction, lines 37-152: the statement the call is at
  aperiod,    \* performExtraction, lines 37-152: local variable period
  alog,       \* performExtraction, lines 37-152: the loader calls made, with their period
  aerr,       \* performExtraction, lines 37-152: the exception raised ("-": none)
  varlist,    \* MyAxes.linePlot: the variables to plot
  plotargs,   \* MyAxes.linePlot: the arguments xticks, yticks and the length of the data
  labels,     \* MyAxes.linePlot: the labels of the variables
  variables,  \* MyAxes: self.variables, label -> position of the variable in varlist
  plots,      \* MyAxes: self.plots, label -> position of the plotted variable
  ppc,        \* MyAxes.linePlot: the statement the call is at
  xaxis,      \* MyAxes: the tick labels of the x-axis, each with text and visibility
  yaxis,      \* MyAxes: the tick labels of the y-axis
  tick,       \* MyAxes: the latest call of xTickLabels or yTickLabels, with its outcome
  nticks      \* MyAxes: direct calls of xTickLabels and yTickLabels so far

vars == <<job, fs, now, srcm, ntouch, touchrun, nruns, pc, rid, sourceage, lskip, idx,
          ops, hit, result, retval, err, fs0, it0, prev, sink, cargs, dirs, cres,
          zipped, spc, sidx, heap, dataset, griddef, pickles,
          driver, njobs, ndone, ec, exitcode, conf, args, bpc,
          pargs, dargs, apc, aperiod, alog, aerr,
          varlist, plotargs, labels, variables, plots, ppc, xaxis, yaxis, tick, nticks>>

\* ------------------------------------------------------------ file system
Exists(p) == p \in DOMAIN fs

Remove(f, p) == [q \in (DOMAIN f) \ {p} |-> f[q]]

Put(f, p, rec) == [q \in (DOMAIN f) \cup {p} |-> IF q = p THEN rec ELSE f[q]]

\* os.rename on POSIX: the source's inode replaces whatever the target holds
Rename(f, src, dst) == Remove(Put(f, dst, f[src]), src)

FileAt(p) == IF Exists(p) THEN fs[p] ELSE NoFile

\* a file is partial from its creation until the sink has been synced
Partial(rec)  == rec.phase \in {"stub", "data"}
Complete(rec) == rec.phase \in {"synced", "closed"}


\* ------------------------------------------------------------------ names
RECURSIVE Join(_)
\* the string a sequence of characters spells
Join(chars) == IF chars = <<>> THEN "" ELSE Head(chars) \o Join(Tail(chars))

\* the pidstr the pool hands to the run in slot w: '[proc01]', '[proc02]', ...;
\* the default pidstr='' outside the pool
PidStr(j, w) ==
  IF j.lparallel THEN <<"[", "p", "r", "o", "c", "0", ToString(w), "]">> ELSE <<>>

\* pidstr[1:-1]
Strip(pidstr) == IF Len(pidstr) < 2 THEN <<>> ELSE SubSeq(pidstr, 2, Len(pidstr) - 1)

RECURSIVE Pad(_, _)
\* the string s, right-aligned in a field of the given width
Pad(s, width) == IF Len(s) >= width THEN s ELSE Pad(" " \o s, width)

\* '{:4d}'.format(n)
Fmt4d(n) == Pad(ToString(n), 4)

\* '{:02d}'.format(n), for the small domain numbers
Fmt02d(n) == IF n < 10 THEN "0" \o ToString(n) ELSE ToString(n)

\* str.upper() on one character (the letters of the identifiers in use)
UpperChar(c) ==
  CASE c = "f" -> "F"
    [] c = "o" -> "O"
    [] OTHER -> c

RECURSIVE Upper(_)
\* dataset.upper()
Upper(s) == IF s = "" THEN "" ELSE UpperChar(SubSeq(s, 1, 1)) \o Upper(Tail(s))

\* "period = dataargs['period']": None stays None (the empty tuple here), an integer becomes
\* (beginyear, beginyear+period); observational datasets "all begin in 1979"
Period(j) ==
  IF j.pnone THEN <<>>
  ELSE LET beginyear == IF j.dataset \in {"WRF", "CESM"} THEN j.years[1] ELSE 1979
       IN <<beginyear, beginyear + j.periods[1]>>

\* "# check period": periodstr as the branch of the dataset leaves it (lines 87-88, 118-119,
\* 146-149)
LoadPeriodStr(j) ==
  IF Period(j) = <<>>
  THEN IF j.dataset \in {"WRF", "CESM"} THEN ""
       ELSE IF j.mode = "climatology" THEN "Long-Term Mean" ELSE ""
  ELSE Fmt4d(Period(j)[1]) \o "-" \o Fmt4d(Period(j)[2])

\* "periodstr = '_{}'.format(periodstr) if periodstr else ''" for WRF and CESM (lines 171,
\* 179); the branch of the observational datasets leaves periodstr as it is
TargetPeriodStr(j) ==
  IF j.dataset \in {"WRF", "CESM"}
  THEN IF LoadPeriodStr(j) # "" THEN "_" \o LoadPeriodStr(j) ELSE ""
  ELSE LoadPeriodStr(j)

\* "atts['period'] = periodstr[1:] if periodstr else 'time-series'"
\* "atts['name'] = dataset_name; atts['shapes'] = shape_name" (lines 220-222)
SinkAtts(j) ==
  [period |-> IF TargetPeriodStr(j) # "" THEN Tail(TargetPeriodStr(j)) ELSE "time-series",
   shapes |-> j.shape_name]

\* no sink has been made
NoSink == [period |-> "-", shapes |-> "-"]

\* avgfolder = '{0:s}/{1:s}/'.format(module.avgfolder,dataset_name) for WRF,
\* avgfolder = module.avgfolder for an observational dataset
AvgFolder(j) ==
  IF j.dataset = "WRF" THEN "wrfavg" \o "/" \o "max-ctrl" \o "/" ELSE "gpccavg/"

\* filename = module.clim_file_pattern.format(filetype,domain,stnstr,periodstr)
\* filename = module.ts_file_pattern.format(filetype,domain,stnstr)
\* filename = getFileName(grid=shape_name, period=period, name=grid_name, filetype=mode)
PatternFileName(j) ==
  IF j.dataset = "WRF"
  THEN IF j.mode = "climatology"
       THEN "wrf" \o "srfc" \o "_d" \o Fmt02d(1) \o ("_" \o j.shape_name) \o "_clim"
            \o TargetPeriodStr(j) \o ".nc"
       ELSE "wrf" \o "srfc" \o "_d" \o Fmt02d(1) \o ("_" \o j.shape_name) \o "_monthly.nc"
  ELSE "gpcc_025" \o "_" \o j.shape_name
       \o (IF j.mode = "climatology" THEN "_clim" ELSE "_monthly")
       \o (IF Period(j) = <<>> THEN "" ELSE "_" \o LoadPeriodStr(j)) \o ".nc"

\* mutant: a debug run uses the name of the output itself
FileNameNoTest(j) == PatternFileName(j)

\* "if ldebug: filename = 'test_' + filename"  (line 190)
FileName(j) == IF j.ldebug THEN "test_" \o PatternFileName(j) ELSE PatternFileName(j)

\* mutant: the prefix of the temporary file does not tell the pool slots apart
TmpPfxNoPid(j, w) == "tmp_" \o j.shape_name \o "_"

\* tmppfx = 'tmp_{:s}_{:s}_'.format(shape_name,pidstr[1:-1])  (parallel)
\* tmppfx = 'tmp_{:s}_'.format(shape_name)                    (otherwise)
TmpPfx(j, w) ==
  IF j.lparallel THEN "tmp_" \o j.shape_name \o "_" \o Join(Strip(PidStr(j, w))) \o "_"
  ELSE "tmp_" \o j.shape_name \o "_"

\* mutant: the sink is always written in place
TmpFileNameInPlace(j, w) == FileName(j)

\* tmpfilename: the file name itself when the dataset is returned
TmpFileName(j, w) == IF j.lreturn THEN FileName(j) ELSE TmpPfx(j, w) \o FileName(j)

FilePath(j) == AvgFolder(j) \o FileName(j)

TmpFilePath(j, w) == AvgFolder(j) \o TmpFileName(j, w)

\* begindate = offset + filebegin
BeginDate(j) == j.offset + j.years[1]

\* "if periods is None: periods = [begindate-fileend]"
Periods(j) == IF j.pnone THEN <<BeginDate(j) - j.years[2]>> ELSE j.periods

\* mutant: the end of the block is counted from the first year of the source
EndDateNoOffset(j, period) == j.years[1] + period

\* enddate = begindate + period
EndDate(j, period) == BeginDate(j) + period

\* periodstr = '{0:4d}-{1:4d}'.format(begindate,enddate)
PeriodStr(j, period) == Fmt4d(BeginDate(j)) \o "-" \o Fmt4d(EndDate(j, period))

\* filename = fileclass.climfile.format(domain,gridstr,'_'+periodstr)
ClimFileName(j, period) == "wrfsrfc_d01" \o "" \o "_clim" \o ("_" \o PeriodStr(j, period)) \o ".nc"

\* filepath = expfolder+filename, expfolder = avgfolder + experiment + '/'
ClimFilePath(j, period) == ("wrfavg/" \o "max-ctrl" \o "/") \o ClimFileName(j, period)

\* ------------------------------------------------------------- staleness
RECURSIVE OldestAge(_, _, _)
\* sourceage = datetime.today()
\* for filename in source.filelist:
\*   age = getmtime(filename); sourceage = age if age < sourceage else sourceage
OldestAge(filelist, mtimes, acc) ==
  IF filelist = <<>> THEN acc
  ELSE LET age == mtimes[Head(filelist)]
       IN OldestAge(Tail(filelist), mtimes, IF age < acc THEN age ELSE acc)

SourceAge(today, mtimes) == OldestAge(FileList, mtimes, today)

\* mutant: the comparison of the two ages is reversed
NewerReversed(age, srcage) == age < srcage

\* "age > sourceage": the sink file is newer than the source
Newer(age, srcage) == age > srcage

\* mutant: a file of exactly the threshold size passes for complete
NoStubAtThreshold(size) == size >= MinSize

\* "os.path.getsize(filepath) > 1e6": the sink file is no stub
NoStub(size) == size > MinSize


\* ------------------------------------------------------------ bookkeeping
Log(w, calls) == ops' = [ops EXCEPT ![w] = @ \o calls]

Goto(w, label) == pc' = [pc EXCEPT ![w] = label]

\* the run ends with an exception: the frame is left, the file system stays as it is
Raise(w, exc) ==
  /\ pc' = [pc EXCEPT ![w] = "idle"]
  /\ result' = [result EXCEPT ![w] = "raised"]
  /\ err' = [err EXCEPT ![w] = exc]
  /\ retval' = [retval EXCEPT ![w] = "-"]

Running(w) == pc[w] # "idle"

\* a write of the run in slot w to the file it has open at path p: it reaches the path only
\* while the path still holds the file the run created (an unlinked file is written to
\* without any effect on the path)
WriteSink(f, w, p, phase, clock) ==
  IF p \in DOMAIN f /\ f[p].ino = rid[w]
  THEN Put(f, p, [mtime |-> clock, size |-> job.outsize, phase |-> phase, ino |-> rid[w]])
  ELSE f

RECURSIVE LastIndex(_, _)
\* position of the last occurrence of call in log (0: none)
LastIndex(log, call) ==
  IF log = <<>> THEN 0
  ELSE IF log[Len(log)] = call THEN Len(log)
  ELSE LastIndex(SubSeq(log, 1, Len(log) - 1), call)

\* the calls the run has made for its current output
IterOps(w) == SubSeq(ops[w], LastIndex(ops[w], "period") + 1, Len(ops[w]))

\* the final path of the output the run is at
FinalPath(w) ==
  IF job.kind = "PE" THEN FilePath(job) ELSE ClimFilePath(job, Periods(job)[idx[w]])

\* the path of the file the sink of the run is opened on
SinkPath(w) == IF job.kind = "PE" THEN TmpFilePath(job, w) ELSE FinalPath(w)

\* the state of the script of datasets/CESM.py
script == <<zipped, spc, sidx, heap, dataset, griddef, pickles>>

\* the state of datasets/CESM.py
cesm == <<cargs, dirs, cres, script>>

\* the state of a batch driver (the __main__ of shpavg.py or wrfavg.py)
build == <<conf, args, bpc>>
entry == <<pargs, dargs, apc, aperiod, alog, aerr>>
axes == <<varlist, plotargs, labels, variables, plots, ppc, xaxis, yaxis, tick, nticks>>
batch == <<driver, njobs, ndone, ec, exitcode, build, entry, axes>>

\* what a run of a worker function leaves alone
env == <<job, srcm, ntouch, touchrun, cesm, batch>>
frame == <<rid, sourceage, fs0, it0, prev, nruns, idx>>
outcome == <<result, retval, err>>

\* ---------------------------------------------------- performExtraction
\* the exception that input checking and the loading of the source end with ("-": none)
\*   lines 44-46: no in-memory sink and no returned dataset in parallel mode
\*   lines 59-90: WRF; the source's period attribute, if any, has to equal periodstr
\*   lines 92-122: CESM; loadCESM and loadCESM_TS are called with the keywords load3D and
\*                translateVars (and grid), which the functions of datasets/CESM.py do not take
\*   lines 123-149: "dataset == dataset.upper()": the module datasets.<dataset> is imported;
\*                the period is not compared with the source
\*   line 151: DatasetError
LoadError(j) ==
  IF j.lparallel /\ (~j.lwrite \/ j.lreturn) THEN "IOError"
  ELSE IF j.dataset = "WRF"
  THEN IF j.srcperiod.has /\ LoadPeriodStr(j) # j.srcperiod.val THEN "DateError" ELSE "-"
  ELSE IF j.dataset = "CESM" THEN "TypeError"
  ELSE IF j.dataset = Upper(j.dataset)
  THEN IF j.dataset \notin Observational THEN "ImportError" ELSE "-"
  ELSE "DatasetError"

\* input checking, loading of the source, sourceage, names of the target (lines 37-201)
StartJob(w) ==
  /\ job.kind = "PE"
  /\ pc[w] = "idle"
  /\ nruns < MaxRuns
  \* in a pool batch every slot takes the job once, at any time; outside the pool one
  \* process runs the job again and again
  /\ \/ job.lparallel /\ result[w] = "none"
     \/ ~job.lparallel /\ w = 1
  /\ nruns' = nruns + 1
  /\ rid' = [rid EXCEPT ![w] = nruns + 1]
  /\ ops' = [ops EXCEPT ![w] = <<>>]
  /\ hit' = [hit EXCEPT ![w] = {}]
  /\ lskip' = [lskip EXCEPT ![w] = FALSE]
  /\ idx' = [idx EXCEPT ![w] = 0]
  /\ fs0' = [fs0 EXCEPT ![w] = fs]
  /\ it0' = [it0 EXCEPT ![w] = fs]
  /\ prev' = [prev EXCEPT ![w] = [result |-> result[w], retval |-> retval[w]]]
  \* the age of the source files is taken once the source is loaded (lines 162-166)
  /\ sourceage' = [sourceage EXCEPT ![w] =
                     IF job.loverwrite \/ LoadError(job) # "-" THEN -1
                     ELSE SourceAge(now, srcm)]
  /\ IF LoadError(job) # "-"
     THEN Raise(w, LoadError(job))
     ELSE IF ~job.lwrite
     THEN Raise(w, "NameError")   \* avgfolder is bound only under "if lwrite:"
     ELSE /\ Goto(w, "exists1")
          /\ result' = [result EXCEPT ![w] = "running"]
          /\ retval' = [retval EXCEPT ![w] = "-"]
          /\ err' = [err EXCEPT ![w] = "-"]
  /\ sink' = [sink EXCEPT ![w] = NoSink]
  /\ UNCHANGED <<env, fs, now>>

\* "if os.path.exists(filepath):" and "if not loverwrite:" (lines 202-203)
Exists1(w) ==
  /\ pc[w] = "exists1"
  /\ IF Exists(FilePath(job))
     THEN IF ~job.loverwrite THEN Goto(w, "getmtime") ELSE Goto(w, "remove1")
     ELSE Goto(w, "tmpexists")
  /\ UNCHANGED <<env, sink, frame, outcome, fs, now, lskip, ops, hit>>

\* "age = datetime.fromtimestamp(os.path.getmtime(filepath))" and "age > sourceage"
GetMTime(w) ==
  /\ pc[w] = "getmtime"
  /\ IF ~Exists(FilePath(job))
     THEN Raise(w, "OSError")
     ELSE /\ IF Newer(fs[FilePath(job)].mtime, sourceage[w])
             THEN Goto(w, "getsize") ELSE Goto(w, "remove1")
          /\ UNCHANGED outcome
  /\ UNCHANGED <<env, sink, frame, fs, now, lskip, ops, hit>>

\* "... and os.path.getsize(filepath) > 1e6: lskip = True"
GetSize(w) ==
  /\ pc[w] = "getsize"
  /\ IF ~Exists(FilePath(job))
     THEN Raise(w, "OSError") /\ UNCHANGED lskip
     ELSE /\ IF NoStub(fs[FilePath(job)].size)
             THEN Goto(w, "skip") /\ lskip' = [lskip EXCEPT ![w] = TRUE]
             ELSE Goto(w, "remove1") /\ UNCHANGED lskip
          /\ UNCHANGED outcome
  /\ UNCHANGED <<env, sink, frame, fs, now, ops, hit>>

\* os.remove(path), then on to label next
RemoveAt(w, path, next) ==
  IF ~Exists(path)
  THEN Raise(w, "OSError") /\ UNCHANGED <<fs, ops, hit>>
  ELSE /\ fs' = Remove(fs, path)
       /\ Log(w, <<"remove">>)
       /\ hit' = [hit EXCEPT ![w] = @ \cup {path}]
       /\ Goto(w, next)
       /\ UNCHANGED outcome

\* "if not lskip: os.remove(filepath) # recompute" (line 208)
Remove1(w) ==
  /\ pc[w] = "remove1"
  /\ RemoveAt(w, FilePath(job), "tmpexists")
  /\ UNCHANGED <<env, sink, frame, now, lskip>>

\* mutant: the old file is removed although the run is skipped
SkipRemoves(w) ==
  /\ pc[w] = "skip"
  /\ fs' = Remove(fs, FilePath(job))
  /\ Log(w, <<"log.skip">>)
  /\ Goto(w, "idle")
  /\ result' = [result EXCEPT ![w] = "skipped"]
  /\ retval' = [retval EXCEPT ![w] = "None"]
  /\ UNCHANGED <<env, sink, frame, now, lskip, hit, err>>

\* "if lskip:" the skip message is logged and the function ends (lines 211-215)
Skip(w) ==
  /\ pc[w] = "skip"
  /\ Log(w, <<"log.skip">>)
  /\ Goto(w, "idle")
  /\ result' = [result EXCEPT ![w] = "skipped"]
  /\ retval' = [retval EXCEPT ![w] = "None"]
  /\ UNCHANGED <<env, sink, frame, fs, now, lskip, hit, err>>

\* "if os.path.exists(tmpfilepath):" (line 226)
TmpExists(w) ==
  /\ pc[w] = "tmpexists"
  /\ IF Exists(TmpFilePath(job, w)) THEN Goto(w, "tmpremove") ELSE Goto(w, "create")
  /\ UNCHANGED <<env, sink, frame, outcome, fs, now, lskip, ops, hit>>

\* "os.remove(tmpfilepath) # remove old temp files" (line 226)
TmpRemove(w) ==
  /\ pc[w] = "tmpremove"
  /\ RemoveAt(w, TmpFilePath(job, w), "create")
  /\ UNCHANGED <<env, sink, frame, now, lskip>>

\* DatasetNetCDF(..., mode='w') creates the file of the sink, and the processing unit is
\* bound to the sink
NewSink(w, atts, next) ==
  /\ fs' = Put(fs, SinkPath(w),
               [mtime |-> now, size |-> 0, phase |-> "stub", ino |-> rid[w]])
  /\ sink' = [sink EXCEPT ![w] = atts]
  /\ Log(w, <<"DatasetNetCDF", "CPU">>)
  /\ hit' = [hit EXCEPT ![w] = @ \cup {SinkPath(w)}]
  /\ Goto(w, next)
  /\ UNCHANGED <<env, frame, outcome, now, lskip>>

\* "sink = DatasetNetCDF(folder=avgfolder, filelist=[tmpfilename], atts=atts, mode='w')"
\* "CPU = CentralProcessingUnit(source, sink, ...)" (lines 227-231)
Create(w) ==
  /\ pc[w] = "create"
  /\ NewSink(w, SinkAtts(job), "ShapeAverage")

\* a call that writes to the sink's file
SinkCall(w, call, phase, next) ==
  /\ fs' = WriteSink(fs, w, SinkPath(w), phase, now)
  /\ Log(w, call)
  /\ hit' = [hit EXCEPT ![w] = @ \cup {SinkPath(w)}]
  /\ Goto(w, next)
  /\ UNCHANGED <<env, sink, frame, outcome, now, lskip>>

\* "CPU.ShapeAverage(shape_dict=shape_dict, shape_name=shape_name, flush=True)"
ShapeAverage(w) ==
  /\ pc[w] = "ShapeAverage"
  /\ SinkCall(w, <<"ShapeAverage">>, "data", "CPUsync")

\* "CPU.sync(flush=True)"
CPUSync(w) ==
  /\ pc[w] = "CPUsync"
  /\ SinkCall(w, <<"CPU.sync">>, "data", "sinksync")

\* "sink.sync()" and the write message (lines 243-246)
SinkSync(w) ==
  /\ pc[w] = "sinksync"
  /\ SinkCall(w, <<"sink.sync", "log.write">>, "synced",
              IF job.lreturn THEN "return" ELSE "close")

\* mutant: the sink is not closed before its file is renamed
CloseForgotten(w) ==
  /\ pc[w] = "close"
  /\ Goto(w, "exists2")
  /\ UNCHANGED <<env, sink, frame, outcome, fs, now, lskip, ops, hit>>

\* "sink.unload(); sink.close(); del sink" (line 250)
Close(w) ==
  /\ pc[w] = "close"
  /\ SinkCall(w, <<"sink.close">>, "closed", "exists2")

\* "if os.path.exists(filepath):" (line 251)
Exists2(w) ==
  /\ pc[w] = "exists2"
  /\ IF Exists(FilePath(job)) THEN Goto(w, "remove2") ELSE Goto(w, "rename")
  /\ UNCHANGED <<env, sink, frame, outcome, fs, now, lskip, ops, hit>>

\* "os.remove(filepath) # remove old file" (line 251)
Remove2(w) ==
  /\ pc[w] = "remove2"
  /\ RemoveAt(w, FilePath(job), "rename")
  /\ UNCHANGED <<env, sink, frame, now, lskip>>

\* "os.rename(tmpfilepath,filepath)" (line 252)
RenameTmp(w) ==
  /\ pc[w] = "rename"
  /\ IF ~Exists(TmpFilePath(job, w))
     THEN Raise(w, "OSError") /\ UNCHANGED <<fs, ops, hit>>
     ELSE /\ fs' = Rename(fs, TmpFilePath(job, w), FilePath(job))
          /\ Log(w, <<"rename">>)
          /\ hit' = [hit EXCEPT ![w] = @ \cup {TmpFilePath(job, w), FilePath(job)}]
          /\ Goto(w, "return")
          /\ UNCHANGED outcome
  /\ UNCHANGED <<env, sink, frame, now, lskip>>

\* "source.unload(); ... return sink / return 0" (lines 256-260)
Return(w) ==
  /\ pc[w] = "return"
  /\ Goto(w, "idle")
  /\ result' = [result EXCEPT ![w] = "returned"]
  /\ retval' = [retval EXCEPT ![w] = IF job.lreturn THEN "sink" ELSE "0"]
  /\ UNCHANGED <<env, sink, frame, fs, now, lskip, ops, hit, err>>

\* --------------------------------------------------- computeClimatology
\* type checks, loading of the source, sourceage, start date (lines 28-60)
StartClim(w) ==
  /\ job.kind = "CC"
  /\ pc[w] = "idle"
  /\ nruns < MaxRuns
  /\ w = 1 /\ \A v \in Slots : pc[v] = "idle"
  /\ nruns' = nruns + 1
  /\ rid' = [rid EXCEPT ![w] = nruns + 1]
  /\ ops' = [ops EXCEPT ![w] = <<>>]
  /\ hit' = [hit EXCEPT ![w] = {}]
  /\ lskip' = [lskip EXCEPT ![w] = FALSE]
  /\ idx' = [idx EXCEPT ![w] = 1]
  /\ fs0' = [fs0 EXCEPT ![w] = fs]
  /\ it0' = [it0 EXCEPT ![w] = fs]
  /\ prev' = [prev EXCEPT ![w] = [result |-> result[w], retval |-> retval[w]]]
  /\ sourceage' = [sourceage EXCEPT ![w] =
                     IF job.loverwrite THEN -1 ELSE SourceAge(now, srcm)]
  /\ IF ~(job.years[1] <= BeginDate(job) /\ BeginDate(job) <= job.years[2])
     THEN Raise(w, "DateError")
     ELSE /\ Goto(w, "cc_period")
          /\ result' = [result EXCEPT ![w] = "running"]
          /\ retval' = [retval EXCEPT ![w] = "-"]
          /\ err' = [err EXCEPT ![w] = "-"]
  /\ sink' = [sink EXCEPT ![w] = NoSink]
  /\ UNCHANGED <<env, fs, now>>

\* the end of the function is reached: it returns None
EndClim(w) ==
  /\ pc[w] = "cc_period"
  /\ idx[w] > Len(Periods(job))
  /\ Goto(w, "idle")
  /\ result' = [result EXCEPT ![w] = "returned"]
  /\ retval' = [retval EXCEPT ![w] = "None"]
  /\ UNCHANGED <<env, sink, frame, fs, now, lskip, ops, hit, err>>

\* mutant: a block that ends after the last year of the source is a DateError as well
DateErrorOutside(j, enddate) == j.years[1] > enddate \/ enddate > j.years[2]

\* "if filebegin > enddate: raise DateError"
DateErrorAt(j, enddate) == j.years[1] > enddate

\* "for period in periods:" up to "lskip = False" (lines 62-82)
ClimPeriod(w) ==
  /\ pc[w] = "cc_period"
  /\ idx[w] <= Len(Periods(job))
  /\ LET period == Periods(job)[idx[w]]
         enddate == EndDate(job, period)
     IN IF DateErrorAt(job, enddate)
        THEN Raise(w, "DateError") /\ UNCHANGED <<idx, ops, hit, lskip, it0>>
        ELSE IF enddate > job.years[2]
        THEN \* 'Invalid Period: End Date not in File!' is logged, on to the next period
             /\ idx' = [idx EXCEPT ![w] = @ + 1]
             /\ Log(w, <<"period", "log.invalid">>)
             /\ hit' = [hit EXCEPT ![w] = {}]
             /\ lskip' = [lskip EXCEPT ![w] = FALSE]
             /\ it0' = [it0 EXCEPT ![w] = fs]
             /\ UNCHANGED <<pc, outcome>>
        ELSE /\ Goto(w, "cc_exists")
             /\ Log(w, <<"period">>)
             /\ hit' = [hit EXCEPT ![w] = {}]
             /\ lskip' = [lskip EXCEPT ![w] = FALSE]
             /\ it0' = [it0 EXCEPT ![w] = fs]
             /\ UNCHANGED <<idx, outcome>>
  /\ UNCHANGED <<env, sink, rid, sourceage, fs0, prev, nruns, fs, now>>

\* "if os.path.exists(filepath):" and "if not loverwrite:" (lines 83-84)
ClimExists(w) ==
  /\ pc[w] = "cc_exists"
  /\ IF Exists(FinalPath(w))
     THEN IF ~job.loverwrite THEN Goto(w, "cc_getmtime") ELSE Goto(w, "cc_remove")
     ELSE Goto(w, "cc_create")
  /\ UNCHANGED <<env, sink, frame, outcome, fs, now, lskip, ops, hit>>

\* "age = ...getmtime(filepath)" and "if age > sourceage: lskip = True" (lines 85-87)
ClimGetMTime(w) ==
  /\ pc[w] = "cc_getmtime"
  /\ IF ~Exists(FinalPath(w))
     THEN Raise(w, "OSError") /\ UNCHANGED lskip
     ELSE /\ IF Newer(fs[FinalPath(w)].mtime, sourceage[w])
             THEN Goto(w, "cc_skip") /\ lskip' = [lskip EXCEPT ![w] = TRUE]
             ELSE Goto(w, "cc_remove") /\ UNCHANGED lskip
          /\ UNCHANGED outcome
  /\ UNCHANGED <<env, sink, frame, fs, now, ops, hit>>

\* "if not lskip: os.remove(filepath)" (line 89)
ClimRemove(w) ==
  /\ pc[w] = "cc_remove"
  /\ RemoveAt(w, FinalPath(w), "cc_create")
  /\ UNCHANGED <<env, sink, frame, now, lskip>>

\* "if lskip:" the skip message is logged, on to the next period (lines 92-94)
ClimSkip(w) ==
  /\ pc[w] = "cc_skip"
  /\ Log(w, <<"log.skip">>)
  /\ Goto(w, "cc_next")
  /\ UNCHANGED <<env, sink, frame, outcome, fs, now, lskip, hit>>

\* the body of the loop is done
ClimNext(w) ==
  /\ pc[w] = "cc_next"
  /\ idx' = [idx EXCEPT ![w] = @ + 1]
  /\ Goto(w, "cc_period")
  /\ UNCHANGED <<env, sink, rid, sourceage, fs0, it0, prev, nruns, outcome, fs, now, lskip, ops, hit>>

\* "sink = DatasetNetCDF(name='WRF Climatology', folder=expfolder, filelist=[filename], ...)"
\* "sink.atts.period = periodstr"
\* "CPU = CentralProcessingUnit(source, sink, varlist=None, tmp=True)" (lines 98-102)
ClimCreate(w) ==
  /\ pc[w] = "cc_create"
  /\ NewSink(w, [period |-> PeriodStr(job, Periods(job)[idx[w]]), shapes |-> "-"],
             "cc_climatology")

\* "CPU.Climatology(period=period, offset=offset, flush=False)": nothing is written yet
Climatology(w) ==
  /\ pc[w] = "cc_climatology"
  /\ Log(w, <<"Climatology">>)
  /\ Goto(w, "cc_cpusync")
  /\ UNCHANGED <<env, sink, frame, outcome, fs, now, lskip, hit>>

\* "CPU.sync(flush=True)" (line 114)
ClimCPUSync(w) ==
  /\ pc[w] = "cc_cpusync"
  /\ SinkCall(w, <<"CPU.sync">>, "data", "cc_annotate")

\* "sink.axisAnnotation(...)" and "sink += VarNC(...)" (lines 120-123)
ClimAnnotate(w) ==
  /\ pc[w] = "cc_annotate"
  /\ SinkCall(w, <<"sink.axisAnnotation", "sink.addVariable">>, "data", "cc_sinksync")

\* "sink.sync()" (line 127)
ClimSinkSync(w) ==
  /\ pc[w] = "cc_sinksync"
  /\ SinkCall(w, <<"log.write", "sink.sync">>, "synced", "cc_close")

\* mutant: length_of_month is added to the sink after sink.sync()
ClimAppendThenClose(w) ==
  /\ pc[w] = "cc_close"
  /\ SinkCall(w, <<"sink.addVariable", "sink.close">>, "closed", "cc_next")

\* "sink.close()" (line 128)
ClimClose(w) ==
  /\ pc[w] = "cc_close"
  /\ SinkCall(w, <<"sink.close">>, "closed", "cc_next")

\* ------------------------------------------------------------ environment
\* the process of the run is interrupted (pool teardown, kill): its frame is gone and
\* nothing is cleaned up on the file system
Crash(w) ==
  /\ Running(w)
  /\ Goto(w, "idle")
  /\ result' = [result EXCEPT ![w] = "killed"]
  /\ rid' = [rid EXCEPT ![w] = 0]
  /\ sourceage' = [sourceage EXCEPT ![w] = -1]
  /\ lskip' = [lskip EXCEPT ![w] = FALSE]
  /\ ops' = [ops EXCEPT ![w] = <<>>]
  /\ hit' = [hit EXCEPT ![w] = {}]
  /\ fs0' = [fs0 EXCEPT ![w] = <<>>]
  /\ it0' = [it0 EXCEPT ![w] = <<>>]
  /\ idx' = [idx EXCEPT ![w] = 0]
  /\ sink' = [sink EXCEPT ![w] = NoSink]
  /\ UNCHANGED <<env, prev, nruns, fs, now, retval, err>>

\* some source files are rewritten, at a time of their own: later than every write before
\* it and earlier than every write after it
TouchSource(files) ==
  /\ ntouch < MaxTouch
  /\ ~job.lparallel      \* the sources are not rewritten while a pool batch runs
  /\ ntouch' = ntouch + 1
  /\ srcm' = [f \in DOMAIN srcm |-> IF f \in files THEN now + 1 ELSE srcm[f]]
  /\ now' = now + 2
  /\ touchrun' = nruns
  /\ UNCHANGED <<job, cesm, batch, sink, frame, outcome, fs, pc, lskip, ops, hit>>

\* --------------------------------------------------------- datasets/CESM.py
\* the values of the arguments name, experiment and folder: None, a string, an Exp instance
None == [t |-> "None", v |-> ""]
Str(s) == [t |-> "str", v |-> s]
ExpObj(key) == [t |-> "Exp", v |-> key]

\* avgfolder = root_folder + 'cesmavg/'
CESMAvgFolder == "CESM/" \o "cesmavg/"

\* experiments['tb20trcn1x1'] = Exp(shortname='Ctrl', name='tb20trcn1x1', ...), ...
Experiments ==
  {[name |-> "tb20trcn1x1", shortname |-> "Ctrl", beginyear |-> 1979, grid |-> "cesm1x1"],
   [name |-> "hab20trcn1x1", shortname |-> "Ens-A", beginyear |-> 1979, grid |-> "cesm1x1"]}

\* "exps[item.name] = item" and "exps[item.shortname] = item": the keys of exps
ExpsKeys == {e.name : e \in Experiments} \cup {e.shortname : e \in Experiments}

\* exps[key]
Exps(key) == CHOOSE e \in Experiments : key \in {e.name, e.shortname}

\* Exp.defaults['avgfolder'] = lambda atts: '{0:s}/{1:s}/'.format(avgfolder,atts['name'])
ExpAvgFolder(e) == CESMAvgFolder \o "/" \o e.name \o "/"

\* what a call ends with: the exception raised ("-": none), the values returned, and the
\* folders the call has looked for with os.path.exists
Ended(exc, folder, experiment, name, probed) ==
  [exc |-> exc, folder |-> folder, experiment |-> experiment, name |-> name,
   probed |-> probed]

NoResult == Ended("none", None, None, None, {})

\* def getFolderName(name=None, experiment=None, folder=None)  (lines 58-80)
\* existing: the folders that exist
GetFolderName(name, experiment, folder, existing) ==
  IF experiment = None
  THEN IF folder.t # "str" THEN Ended("IOError", folder, experiment, name, {})
       ELSE IF name.t = "str" /\ name.v \in ExpsKeys
       THEN IF folder.v \notin existing
            THEN Ended("IOError", folder, ExpObj(name.v), name, {folder.v})
            ELSE Ended("-", folder, ExpObj(name.v), name, {folder.v})
       ELSE Ended("DatasetError", folder, experiment, name, {})
  ELSE IF experiment.t = "str" /\ experiment.v \notin ExpsKeys
  THEN Ended("KeyError", folder, experiment, name, {})        \* exps[experiment]
  ELSE LET exp == Exps(experiment.v)
           fld == IF folder = None THEN Str(ExpAvgFolder(exp)) ELSE folder
           nam == IF name = None THEN Str(exp.name) ELSE name
       IN IF fld.v \notin existing
          THEN Ended("IOError", fld, ExpObj(experiment.v), nam, {fld.v})
          ELSE Ended("-", fld, ExpObj(experiment.v), nam, {fld.v})

\* def loadCESM(experiment=None, name=None, grid=None, period=None, ...)  (lines 173-222)
\* haveperiod: a period is given (a tuple of two years)
LoadCESM(experiment, name, haveperiod, existing) ==
  LET got == GetFolderName(name, experiment, None, existing)
  IN IF got.exc # "-" THEN got
     ELSE IF ~haveperiod
     THEN Ended("DateError", got.folder, got.experiment, got.name, got.probed)
     ELSE got

\* the values of name and experiment a call is made with
NameArgs == {None, Str("tb20trcn1x1"), Str("Ctrl"), Str("bogus")}
ExperimentArgs == NameArgs \cup {ExpObj("tb20trcn1x1")}

\* folders a call is made with, and folders that exist
FolderArgs == {None, Str("CESM/cesmavg//tb20trcn1x1/"), Str("elsewhere/")}
Folders == {"CESM/cesmavg//tb20trcn1x1/", "CESM/cesmavg//hab20trcn1x1/", "elsewhere/"}

CallArgs ==
  [fn : {"getFolderName"}, name : NameArgs, experiment : ExperimentArgs,
   folder : FolderArgs, haveperiod : {TRUE}]
  \cup
  [fn : {"loadCESM"}, name : NameArgs, experiment : ExperimentArgs,
   folder : {None}, haveperiod : BOOLEAN]

\* no function of the module is called
NoCall == [fn |-> "none"]

\* the script is not run
NoScript ==
  /\ zipped = <<>> /\ spc = "none" /\ sidx = 0
  /\ heap = <<>> /\ dataset = [griddef |-> 0] /\ griddef = 0 /\ pickles = <<>>

NoCESM == cargs = NoCall /\ dirs = {} /\ cres = NoResult /\ NoScript

\* the worker functions' state
worker == <<job, fs, now, srcm, ntouch, touchrun, nruns, pc, rid, sourceage, lskip, idx,
            ops, hit, result, retval, err, fs0, it0, prev, sink>>

\* getFolderName(name=..., experiment=..., folder=...)
CallGetFolderName ==
  /\ cargs.fn = "getFolderName" /\ cres = NoResult
  /\ cres' = GetFolderName(cargs.name, cargs.experiment, cargs.folder, dirs)
  /\ UNCHANGED <<worker, batch, script, cargs, dirs>>

\* loadCESM(experiment=..., name=..., period=...)
CallLoadCESM ==
  /\ cargs.fn = "loadCESM" /\ cres = NoResult
  /\ cres' = LoadCESM(cargs.experiment, cargs.name, cargs.haveperiod, dirs)
  /\ UNCHANGED <<worker, batch, script, cargs, dirs>>

\* no job is run
NoJob == [kind |-> "none"]

\* ------------------------------------------- datasets/CESM.py: pickle_grid
\* the names a GridDefinition is constructed with when loadCESM adds the projection to the
\* dataset (addGDALtoDataset): that of the experiment's grid, or that of the dataset
MadeNames(exp) == {exp.grid, exp.name}

\* filename = '{0:s}/{1:s}'.format(grid_folder,griddef_pickle.format(grid))
PickleName(grid) == "grids/" \o "/" \o grid \o "_griddef.pickle"

\* a GridDefinition object: its name, the name it was constructed with, the number of
\* assignments to its fields since, and its coordinate arrays and geotransform (data: those
\* of the dataset they were read from)
NewGridDef(n, d) == [name |-> n, made |-> n, writes |-> 0, data |-> d]

\* pickle.dump(griddef, filehandle): the state of the object as it is when it is dumped
\* mutant: the name the object was constructed with is written
DumpMadeName(obj) == [name |-> obj.made, data |-> obj.data]

Dump(obj) == [name |-> obj.name, data |-> obj.data]

\* pickle.load: a new object with the state held by the pickle
Load(p) == NewGridDef(p.name, p.data)

\* the pair of the loop "for grid,experiment in zip(grids,experiments):"
Grid == zipped[sidx][1]
Experiment == zipped[sidx][2]

ScriptGoto(label) == spc' = label

\* "dataset = loadCESM(experiment=experiment, grid=None, filetypes=['lnd'], period=(1979,1989))"
\* "griddef = dataset.griddef"  (lines 260-261)
ScriptLoad ==
  /\ spc = "load"
  /\ LET got == LoadCESM(Str(Experiment), None, TRUE, dirs)
     IN IF got.exc # "-"
        THEN /\ ScriptGoto("raised")
             /\ UNCHANGED <<heap, dataset, griddef>>
        ELSE \E n \in MadeNames(Exps(Experiment)) :
               /\ heap' = Append(heap, NewGridDef(n, Exps(Experiment).name))
               /\ dataset' = [griddef |-> Len(heap) + 1]
               /\ griddef' = Len(heap) + 1
               /\ ScriptGoto("assign")
  /\ UNCHANGED <<worker, batch, cargs, dirs, cres, zipped, sidx, pickles>>

\* "griddef.name = grid"  (line 264)
ScriptAssign ==
  /\ spc = "assign"
  /\ heap' = [heap EXCEPT ![griddef] = [@ EXCEPT !.name = Grid, !.writes = @ + 1]]
  /\ ScriptGoto("exists")
  /\ UNCHANGED <<worker, batch, cargs, dirs, cres, zipped, sidx, dataset, griddef, pickles>>

\* "if os.path.exists(filename):"  (line 268)
ScriptExists ==
  /\ spc = "exists"
  /\ IF PickleName(Grid) \in DOMAIN pickles THEN ScriptGoto("remove") ELSE ScriptGoto("open")
  /\ UNCHANGED <<worker, batch, cargs, dirs, cres, zipped, sidx, heap, dataset, griddef,
                 pickles>>

\* "os.remove(filename) # overwrite"  (line 268)
ScriptRemove ==
  /\ spc = "remove"
  /\ pickles' = [f \in (DOMAIN pickles) \ {PickleName(Grid)} |-> pickles[f]]
  /\ ScriptGoto("open")
  /\ UNCHANGED <<worker, batch, cargs, dirs, cres, zipped, sidx, heap, dataset, griddef>>

\* the file of the pickle holds the fields of object obj (whole: written and closed)
WritePickle(obj, whole) ==
  pickles' = [f \in (DOMAIN pickles) \cup {PickleName(Grid)} |->
                IF f = PickleName(Grid) THEN [obj |-> Dump(obj), whole |-> whole]
                ELSE pickles[f]]

\* "filehandle = open(filename, 'w')", "pickle.dump(griddef, filehandle)"  (lines 269-270)
ScriptDump ==
  /\ spc = "open"
  /\ WritePickle(heap[griddef], FALSE)
  /\ ScriptGoto("close")
  /\ UNCHANGED <<worker, batch, cargs, dirs, cres, zipped, sidx, heap, dataset, griddef>>

\* "filehandle.close()"  (line 271)
ScriptClose ==
  /\ spc = "close"
  /\ WritePickle(heap[griddef], TRUE)
  /\ ScriptGoto("reload")
  /\ UNCHANGED <<worker, batch, cargs, dirs, cres, zipped, sidx, heap, dataset, griddef>>

\* loadPickledGridDef(grid, res=None, folder=grid_folder): the object unpickled from the file
\* of that grid name in the folder
LoadPickledGridDef(grid) == Load(pickles[PickleName(grid)].obj)

\* "del griddef", "griddef = loadPickledGridDef(grid, res=None, folder=grid_folder)"
\* (lines 277-278), and on to the next pair
ScriptReload ==
  /\ spc = "reload"
  /\ heap' = Append(heap, LoadPickledGridDef(Grid))
  /\ griddef' = Len(heap) + 1
  /\ sidx' = sidx + 1
  /\ IF sidx < Len(zipped) THEN ScriptGoto("load") ELSE ScriptGoto("done")
  /\ UNCHANGED <<worker, batch, cargs, dirs, cres, zipped, dataset, pickles>>

\* grids and experiments of the script ("grids = ['cesm1x1']; experiments = ['Ctrl']")
GridNames == {"cesm1x1", "cesm2x2"}
ExperimentNames == {"Ctrl", "tb20trcn1x1", "Ens-A"}

\* zip(grids,experiments), for lists of one or two entries
Zipped ==
  LET Pairs == GridNames \X ExperimentNames
  IN {<<p>> : p \in Pairs} \cup {<<p, q>> : p \in Pairs, q \in Pairs}

\* pickle files an earlier run of the script has left
OldPickles ==
  {<<>>} \cup {[f \in {PickleName(g)} |-> [obj |-> [name |-> g, data |-> "old"], whole |-> TRUE]] :
                g \in GridNames}

\* ----------------------------------------------------------- batch drivers
\* a / b rounded up: np.ceil of the quotient of two non-negative numbers
Ceil(a, b) == (a + b - 1) \div b

\* the exit status of the script after the pool has returned the number ec of failed jobs
\*   shpavg.py: "exit(int(10+np.ceil(10.*ec/len(args))) if ec > 0 else 0)"
\*   wrfavg.py: the value asyncPoolEC returns is dropped and the script runs to its end
ExitCode(main, failed, total) ==
  IF main = "shpavg"
  THEN IF failed > 0 THEN 10 + Ceil(10 * failed, total) ELSE 0
  ELSE 0

\* ------------------------- performExtraction: arguments and source (lines 37-152)
\* the values of dataargs['period']: None, an integer, a sequence (its length, and whether
\* all its elements are integers), a float
PeriodNone == [k |-> "None", n |-> 0, len |-> 0, ints |-> TRUE]
PeriodInt(n) == [k |-> "int", n |-> n, len |-> 0, ints |-> TRUE]
PeriodSeq(len, ints) == [k |-> "seq", n |-> 0, len |-> len, ints |-> ints]
PeriodFloat == [k |-> "float", n |-> 0, len |-> 0, ints |-> FALSE]

\* the branch of the dataset  (lines 59, 92, 123, 150)
Branch(ds) ==
  IF ds = "WRF" THEN "WRF"
  ELSE IF ds = "CESM" THEN "CESM"
  ELSE IF ds = Upper(ds) THEN "obs"
  ELSE "none"

\* the test of a sequence
\*   lines 71, 103: "elif len(period) != 2 and all(isInt(period)): raise DateError"
\*   line 135:      "elif len(period) != 2 and not all(isInt(period)): raise DateError"
SeqError(branch, p) ==
  IF branch \in {"WRF", "CESM"}
  THEN IF p.len # 2 /\ p.ints THEN "DateError" ELSE "-"
  ELSE IF p.len # 2 /\ ~p.ints THEN "DateError" ELSE "-"

\* "# figure out period" (lines 65-71, 97-103, 131-135): the exception raised ("-": none);
\* len() of a float raises TypeError
PeriodError(branch, p) ==
  IF p.k \in {"None", "int"} THEN "-"
  ELSE IF p.k = "float" THEN "TypeError"
  ELSE SeqError(branch, p)

\* mutant: the flags of parallel mode are not tested
InputErrorTypesOnly(a) ==
  IF a.dataset_t # "str" \/ a.dataargs_t # "dict" \/ a.shape_dict_t # "OrderedDict"
  THEN "TypeError"
  ELSE "-"

\* "# input checking"  (lines 40-46)
InputError(a) ==
  IF a.dataset_t # "str" THEN "TypeError"
  ELSE IF a.dataargs_t # "dict" THEN "TypeError"
  ELSE IF a.shape_dict_t # "OrderedDict" THEN "TypeError"
  ELSE IF a.lparallel /\ ~a.lwrite THEN "IOError"
  ELSE IF a.lparallel /\ a.lreturn THEN "IOError"
  ELSE "-"

\* the call ends with exception exc
CallRaise(exc) == apc' = "raised" /\ aerr' = exc

\* lines 40-46, and the choice of the branch (DatasetError of line 151)
CallCheck ==
  /\ apc = "check"
  /\ IF InputError(pargs) # "-" THEN CallRaise(InputError(pargs))
     ELSE IF Branch(pargs.dataset) = "none" THEN CallRaise("DatasetError")
     ELSE IF Branch(pargs.dataset) = "obs" /\ pargs.dataset \notin Observational
     THEN CallRaise("ImportError")
     ELSE apc' = "period" /\ UNCHANGED aerr
  /\ UNCHANGED <<worker, cesm, driver, njobs, ndone, ec, exitcode, build, axes, pargs, dargs,
                 aperiod, alog>>

\* "period = dataargs['period']" and its test  (lines 65-71, 97-103, 131-135)
CallPeriod ==
  /\ apc = "period"
  /\ aperiod' = pargs.period
  /\ IF PeriodError(Branch(pargs.dataset), pargs.period) # "-"
     THEN CallRaise(PeriodError(Branch(pargs.dataset), pargs.period))
     ELSE apc' = "load" /\ UNCHANGED aerr
  /\ UNCHANGED <<worker, cesm, driver, njobs, ndone, ec, exitcode, build, axes, pargs, dargs, alog>>

\* the keywords loadCESM and loadCESM_TS are called with and do not have (lines 111-115;
\* CESM.py:167, 173-174)
UnknownKeywords == {"load3D", "translateVars"}

\* the exception the loader is left with ("-": none)
LoaderError(branch, a) ==
  IF branch = "CESM" /\ UnknownKeywords # {} THEN "TypeError" ELSE "-"

\* periodstr = '{0:4d}-{1:4d}'.format(*period)  (lines 88, 119, 149): ValueError for elements
\* that are not integers
FormatError(p) == IF p.k = "seq" /\ ~p.ints THEN "ValueError" ELSE "-"

\* "load3D = dataargs.pop('load3D',None)" (line 109, CESM only), the call of the loader
\* (lines 76-84, 110-115, 137-143), "# check period" and "del dataargs" (line 152)
CallLoad ==
  /\ apc = "load"
  /\ LET branch == Branch(pargs.dataset)
     IN /\ dargs' = IF branch = "CESM" THEN dargs \ {"load3D"} ELSE dargs
        /\ alog' = Append(alog, [loader |-> branch, period |-> aperiod])
        /\ IF LoaderError(branch, pargs) # "-" THEN CallRaise(LoaderError(branch, pargs))
           ELSE IF FormatError(aperiod) # "-" THEN CallRaise(FormatError(aperiod))
           ELSE apc' = "loaded" /\ UNCHANGED aerr
  /\ UNCHANGED <<worker, cesm, driver, njobs, ndone, ec, exitcode, build, axes, pargs, aperiod>>

\* the caller calls the function again with the same dictionary
CallAgain ==
  /\ apc \in {"raised", "loaded"}
  /\ Len(alog) < MaxCalls
  /\ apc' = "check"
  /\ aerr' = "-"
  /\ aperiod' = PeriodNone
  /\ UNCHANGED <<worker, cesm, driver, njobs, ndone, ec, exitcode, build, axes, pargs, dargs, alog>>

\* the keys of the dictionaries the driver makes  (lines 440-470)
DataArgs(ds) ==
  IF ds = "WRF" THEN {"experiment", "filetypes", "domain", "period"}
  ELSE IF ds = "CESM" THEN {"experiment", "filetypes", "period", "load3D"}
  ELSE {"period", "resolution"}

PeriodValues ==
  {PeriodNone, PeriodInt(10), PeriodFloat}
  \cup {PeriodSeq(len, ints) : len \in {2, 3}, ints \in BOOLEAN}

CallJobs ==
  [dataset : Datasets, dataset_t : {"str", "Exp"}, dataargs_t : {"dict", "list"},
   shape_dict_t : {"OrderedDict", "dict"}, mode : Modes, period : PeriodValues,
   lparallel : BOOLEAN, lwrite : BOOLEAN, lreturn : BOOLEAN]

\* performExtraction is not called
NotCalled ==
  /\ pargs = [dataset |-> "-"] /\ dargs = {} /\ apc = "none" /\ aperiod = PeriodNone
  /\ alog = <<>> /\ aerr = "-"

\* the argument list is not built
NoBuild == conf = [set |-> FALSE] /\ args = <<>> /\ bpc = [stage |-> "none", m |-> 0, i |-> 0]

\* no batch is run
\* no axes in use
NoAxes ==
  /\ varlist = <<>>
  /\ plotargs = [xticks |-> [k |-> "True", v |-> <<>>], yticks |-> [k |-> "True", v |-> <<>>],
                 len |-> 0]
  /\ labels = <<>>
  /\ variables = [l \in {} |-> 0]
  /\ plots = [l \in {} |-> 0]
  /\ ppc = "none"
  /\ xaxis = <<>>
  /\ yaxis = <<>>
  /\ tick = [fn |-> "none", ticks |-> [k |-> "True", v |-> <<>>], n |-> -1, exc |-> "-",
             ret |-> <<>>, before |-> <<>>, ax |-> <<>>, minor |-> 0]
  /\ nticks = 0

NoBatch == driver = "none" /\ njobs = 0 /\ ndone = 0 /\ ec = 0 /\ exitcode = -1 /\ NoBuild /\ NotCalled /\ NoAxes

\* asyncPoolEC: a job of the batch ends without an exception
JobSucceeds ==
  /\ exitcode = -1 /\ ndone < njobs
  /\ ndone' = ndone + 1
  /\ UNCHANGED <<worker, cesm, driver, njobs, ec, exitcode, build, entry, axes>>

\* asyncPoolEC: a job of the batch ends with an exception, which is counted
JobFails ==
  /\ exitcode = -1 /\ ndone < njobs
  /\ ndone' = ndone + 1
  /\ ec' = ec + 1
  /\ UNCHANGED <<worker, cesm, driver, njobs, exitcode, build, entry, axes>>

\* the pool has returned: the script exits
Exit ==
  /\ exitcode = -1 /\ ndone = njobs
  /\ exitcode' = ExitCode(driver, ec, njobs)
  /\ UNCHANGED <<worker, cesm, driver, njobs, ndone, ec, build, entry, axes>>

\* ------------------------------------------- shpavg.py: the argument list
\* the value of a period: None or an integer
PNone == [t |-> "None", v |-> 0]
PInt(n) == [t |-> "int", v |-> n]

\* one job package: (dataset, mode, shape_name, shape_dict, dict(...)); the keys a dict does
\* not have are "-" (0 for the domain); an experiment stands by its name
Package(ds, mode, experiment, filetype, domain, period, resolution) ==
  [dataset |-> ds, mode |-> mode, shape_name |-> "shpavg", experiment |-> experiment,
   filetype |-> filetype, domain |-> domain, period |-> period, resolution |-> resolution]

\* [f(a, b) for a in A for b in B]
ForFor(A, B, f(_, _)) ==
  [k \in 1..(Len(A) * Len(B)) |-> f(A[((k - 1) \div Len(B)) + 1], B[((k - 1) % Len(B)) + 1])]

\* [f(a) for a in A]
For(A, f(_)) == [k \in 1..Len(A) |-> f(A[k])]

\* the concatenation of the sequences of a sequence
RECURSIVE Concat(_)
Concat(ss) == IF ss = <<>> THEN <<>> ELSE Head(ss) \o Concat(Tail(ss))

\* "if periods is None: periods = [None]"  (line 371)
PeriodsArg(c) == IF c.periods.none THEN <<PNone>> ELSE c.periods.list

\* "if mode == 'climatology': periodlist = periods / elif mode == 'time-series':
\* periodlist = (None,)"  (lines 423-424)
PeriodList(c, mode) == IF mode = "climatology" THEN PeriodsArg(c) ELSE <<PNone>>

\* resolutions[dataset] after lines 430-432: ('',) if the dataset has no entry
Resolutions(c, ds) ==
  IF ds \in DOMAIN c.resolutions.dict THEN c.resolutions.dict[ds] ELSE <<"">>

\* dsreses (lines 437-438, 442-443, 449-450): the grids of the module, or those of the
\* resolutions of the dataset that the module has
DsReses(c, ds, grids) ==
  IF c.resolutions.none THEN grids
  ELSE SelectSeq(Resolutions(c, ds), LAMBDA r : \E k \in 1..Len(grids) : grids[k] = r)

\* the packages appended for one observational dataset  (lines 428-452)
ObsPackages(c, mode, ds) ==
  LET ltm == DsReses(c, ds, c.grids[ds].LTM)
      ts  == DsReses(c, ds, c.grids[ds].TS)
      OfLTM(r) == Package(ds, mode, "-", "-", 0, PNone, r)
      OfTS(r, p) == Package(ds, mode, "-", "-", 0, p, r)
  IN IF mode = "climatology"
     THEN (IF c.lLTM THEN For(ltm, OfLTM) ELSE <<>>) \o ForFor(ts, PeriodList(c, mode), OfTS)
     ELSE For(ts, OfLTM)

\* the packages appended for one CESM experiment  (lines 455-459); CESM_exps[exp]
CESMPackages(c, mode, key) ==
  LET Of(ft, p) == Package("CESM", mode, Exps(key).name, ft, 0, p, "-")
  IN ForFor(c.CESM_filetypes, PeriodList(c, mode), Of)

\* WRF_exps[exp] (projects/WRF_experiments.py): the experiment a key stands for, with the
\* number of its domains
WRFExps(key) == [name |-> key, domains |-> IF key = "max-ctrl" THEN 2 ELSE 1]

\* the packages appended for one WRF experiment  (lines 461-470)
WRFPackages(c, mode, key) ==
  LET exp == WRFExps(key)
      tmpdom == IF c.domains.none THEN [k \in 1..exp.domains |-> k] ELSE c.domains.list
      OfFt(ft) ==
        LET Of(dom, p) == Package("WRF", mode, exp.name, ft, dom, p, "-")
        IN ForFor(tmpdom, PeriodList(c, mode), Of)
  IN Concat(For(c.WRF_filetypes, OfFt))

BuildGoto(stage, m, i) == bpc' = [stage |-> stage, m |-> m, i |-> i]

Mode == conf.modes[bpc.m]

\* "for mode in modes:" and the choice of periodlist  (lines 421-425)
BuildMode ==
  /\ bpc.stage = "mode"
  /\ IF bpc.m > Len(conf.modes) THEN BuildGoto("done", bpc.m, 0)
     ELSE IF Mode \notin {"climatology", "time-series"}
     THEN BuildGoto("NotImplementedError", bpc.m, 0)
     ELSE BuildGoto("obs", bpc.m, 1)
  /\ UNCHANGED <<worker, cesm, driver, njobs, ndone, ec, exitcode, conf, args, entry, axes>>

\* "for dataset in datasets:"  (lines 428-452): one dataset
BuildObs ==
  /\ bpc.stage = "obs"
  /\ IF bpc.i > Len(conf.datasets)
     THEN BuildGoto("cesm", bpc.m, 1) /\ UNCHANGED args
     ELSE /\ args' = args \o ObsPackages(conf, Mode, conf.datasets[bpc.i])
          /\ BuildGoto("obs", bpc.m, bpc.i + 1)
  /\ UNCHANGED <<worker, cesm, driver, njobs, ndone, ec, exitcode, conf, entry, axes>>

\* "for experiment in CESM_experiments:"  (lines 455-459): one experiment
BuildCESM ==
  /\ bpc.stage = "cesm"
  /\ IF bpc.i > Len(conf.CESM_experiments)
     THEN BuildGoto("wrf", bpc.m, 1) /\ UNCHANGED args
     ELSE /\ args' = args \o CESMPackages(conf, Mode, conf.CESM_experiments[bpc.i])
          /\ BuildGoto("cesm", bpc.m, bpc.i + 1)
  /\ UNCHANGED <<worker, cesm, driver, njobs, ndone, ec, exitcode, conf, entry, axes>>

\* "for experiment in WRF_experiments:"  (lines 461-470): one experiment
BuildWRF ==
  /\ bpc.stage = "wrf"
  /\ IF bpc.i > Len(conf.WRF_experiments)
     THEN BuildGoto("mode", bpc.m + 1, 0) /\ UNCHANGED args
     ELSE /\ args' = args \o WRFPackages(conf, Mode, conf.WRF_experiments[bpc.i])
          /\ BuildGoto("wrf", bpc.m, bpc.i + 1)
  /\ UNCHANGED <<worker, cesm, driver, njobs, ndone, ec, exitcode, conf, entry, axes>>

\* the settings of the script (lines 285-368), and the grids of the modules of the
\* observational datasets (mod.LTM_grids, mod.TS_grids)
ModesArgs == {<<"climatology">>, <<"time-series">>, <<"climatology", "time-series">>,
              <<"climatology", "seasonal">>}
PeriodsArgs ==
  {[none |-> TRUE, list |-> <<>>], [none |-> FALSE, list |-> <<>>],
   [none |-> FALSE, list |-> <<PInt(5), PInt(10)>>]}
DatasetsArgs == {<<>>, <<"GPCC">>, <<"GPCC", "CRU">>}
ResolutionsArgs ==
  {[none |-> TRUE, dict |-> <<>>],
   [none |-> FALSE, dict |-> [d \in {"GPCC"} |-> <<"025", "05">>]]}
ModGrids ==
  {[d \in {"GPCC", "CRU"} |->
      IF d = "GPCC" THEN [LTM |-> ltm, TS |-> <<"05">>] ELSE [LTM |-> <<>>, TS |-> <<"">>]] :
   ltm \in {<<"025">>, <<"025", "05">>}}
CESMExperimentsArgs == {<<>>, <<"Ctrl">>, <<"Ctrl", "Ens-A">>, <<"Ctrl", "tb20trcn1x1">>}
WRFExperimentsArgs == {<<>>, <<"max-ctrl">>, <<"max-ctrl", "new-ctrl">>}
DomainsArgs == {[none |-> TRUE, list |-> <<>>], [none |-> FALSE, list |-> <<2>>]}

Confs ==
  [set : {TRUE}, modes : ModesArgs, periods : PeriodsArgs, lLTM : BOOLEAN,
   datasets : DatasetsArgs, resolutions : ResolutionsArgs, grids : ModGrids,
   CESM_experiments : CESMExperimentsArgs, CESM_filetypes : {<<"atm", "lnd">>},
   WRF_experiments : WRFExperimentsArgs, WRF_filetypes : {<<"hydro", "srfc">>},
   domains : DomainsArgs]

\* ------------------------------------------------------------ plotting/axes.py
\* a label is a string (a variable's or a dataset's name) or a number (range)
LabelStr(x) == [s |-> x, i |-> -1]

LabelInt(k) == [s |-> "", i |-> k]

\* MyAxes._getPlotLabels (lines 307-317): names if no later variable has the name of the
\* first, else dataset names if every variable has a dataset and no later one has the
\* dataset of the first, else range(len(varlist))
GetPlotLabels(vl) ==
  IF ~ \E k \in 2..Len(vl) : vl[k].name = vl[1].name
  THEN [k \in 1..Len(vl) |-> LabelStr(vl[k].name)]
  ELSE IF /\ \A k \in 1..Len(vl) : vl[k].dataset # "None"
          /\ ~ \E k \in 2..Len(vl) : vl[k].dataset = vl[1].dataset
       THEN [k \in 1..Len(vl) |-> LabelStr(vl[k].dataset)]
       ELSE [k \in 1..Len(vl) |-> LabelInt(k - 1)]

\* for label,x in zip(labels, ...): d[label] = x: a later entry replaces an earlier one
DictSetAll(d, ls) ==
  [l \in DOMAIN d \cup {ls[k] : k \in 1..Len(ls)} |->
     IF \E k \in 1..Len(ls) : ls[k] = l
     THEN CHOOSE k \in 1..Len(ls) : ls[k] = l /\ \A m \in (k + 1)..Len(ls) : ls[m] # l
     ELSE d[l]]

EmptyDict == [l \in {} |-> 0]

\* the ticks argument: True, False, a list, a tuple, or something else (a string)
TickTrue == [k |-> "True", v |-> <<>>]

TickFalse == [k |-> "False", v |-> <<>>]

TickList(v) == [k |-> "list", v |-> v]

TickTuple(v) == [k |-> "tuple", v |-> v]

TickOther == [k |-> "str", v |-> <<>>]

NoN == -1

\* isinstance(ticks,list,tuple) (line 403): isinstance takes two arguments
IsInstance3 == [exc |-> "TypeError", val |-> FALSE]

Hide(ax) == [k \in 1..Len(ax) |-> [ax[k] EXCEPT !.visible = FALSE]]

\* MyAxes._tickLabels (lines 396-408): the exception, the returned list (positions of the
\* axis' tick labels) and the axis afterwards
TickLabels(ticks, ax) ==
  IF ticks.k = "True" THEN [exc |-> "-", ret |-> [k \in 1..Len(ax) |-> k], ax |-> ax]
  ELSE IF ticks.k = "False" THEN [exc |-> "-", ret |-> <<>>, ax |-> Hide(ax)]
  ELSE IF IsInstance3.exc # "-" THEN [exc |-> IsInstance3.exc, ret |-> <<>>, ax |-> ax]
  ELSE IF IsInstance3.val
       THEN [exc |-> "-", ret |-> [k \in 1..Len(ticks.v) |-> k],
             ax |-> [k \in 1..Len(ticks.v) |-> [text |-> ticks.v[k], visible |-> TRUE]]]
       ELSE [exc |-> "ValueError", ret |-> <<>>, ax |-> ax]

\* MyAxes._minorTickLabels (lines 390-394): n%nmaj with nmaj = len(ticks)
MinorTickLabels(ret, n) ==
  IF Len(ret) = 0 THEN [exc |-> "ZeroDivisionError", minor |-> 0]
  ELSE IF n % Len(ret) = 0 THEN [exc |-> "-", minor |-> n \div Len(ret)]
       ELSE [exc |-> "-", minor |-> 0]

\* MyAxes.xTickLabels / yTickLabels (lines 372-388); ax is the axis of the call and
\* other the other axis: without loverlap the first returned label is hidden when the
\* other axis has no labels or its last one is hidden
AxisTickLabels(fn, ticks, n, loverlap, ax, other) ==
  LET t == TickLabels(ticks, ax)
      hide == /\ ~ loverlap
              /\ Len(t.ret) > 0
              /\ (Len(other) = 0 \/ ~ other[Len(other)].visible)
      ax2 == IF hide THEN [t.ax EXCEPT ![t.ret[1]].visible = FALSE] ELSE t.ax
      m == IF n # NoN THEN MinorTickLabels(t.ret, n) ELSE [exc |-> "-", minor |-> 0]
  IN  IF t.exc # "-"
      THEN [fn |-> fn, ticks |-> ticks, n |-> n, exc |-> t.exc, ret |-> <<>>, before |-> ax,
            ax |-> t.ax, minor |-> 0]
      ELSE [fn |-> fn, ticks |-> ticks, n |-> n, exc |-> m.exc,
            ret |-> IF m.exc = "-" THEN t.ret ELSE <<>>, before |-> ax, ax |-> ax2,
            minor |-> m.minor]

NoTick == [fn |-> "none", ticks |-> TickTrue, n |-> NoN, exc |-> "-", ret |-> <<>>,
           before |-> <<>>, ax |-> <<>>, minor |-> 0]

\* linePlot, lines 66-83: the labels, and self.variables[label] = var
LinePlotLabels ==
  /\ ppc = "labels"
  /\ labels' = GetPlotLabels(varlist)
  /\ variables' = DictSetAll(variables, labels')
  /\ ppc' = "lines"
  /\ UNCHANGED <<worker, cesm, driver, njobs, ndone, ec, exitcode, build, entry,
                 varlist, plotargs, plots, xaxis, yaxis, tick, nticks>>

\* linePlot, lines 90-106: one line per variable, self.plots[label] = plt
LinePlotLines ==
  /\ ppc = "lines"
  /\ plots' = DictSetAll(plots, labels)
  /\ ppc' = "xticks"
  /\ UNCHANGED <<worker, cesm, driver, njobs, ndone, ec, exitcode, build, entry,
                 varlist, plotargs, labels, variables, xaxis, yaxis,
                 tick, nticks>>

\* linePlot, line 121: self.xTickLabels(xticks, n=len(xx), loverlap=False); xx is bound in
\* the loop over the variables
LinePlotXTicks ==
  /\ ppc = "xticks"
  /\ IF Len(varlist) = 0
     THEN /\ tick' = [NoTick EXCEPT !.fn = "x", !.exc = "UnboundLocalError"]
          /\ ppc' = "raised"
          /\ UNCHANGED xaxis
     ELSE /\ tick' = AxisTickLabels("x", plotargs.xticks, plotargs.len, FALSE, xaxis, yaxis)
          /\ xaxis' = tick'.ax
          /\ ppc' = IF tick'.exc = "-" THEN "yticks" ELSE "raised"
  /\ UNCHANGED <<worker, cesm, driver, njobs, ndone, ec, exitcode, build, entry,
                 varlist, plotargs, labels, variables, plots, yaxis,
                 nticks>>

\* linePlot, line 122: self.yTickLabels(yticks, n=len(yy), loverlap=False)
LinePlotYTicks ==
  /\ ppc = "yticks"
  /\ tick' = AxisTickLabels("y", plotargs.yticks, plotargs.len, FALSE, yaxis, xaxis)
  /\ yaxis' = tick'.ax
  /\ ppc' = IF tick'.exc = "-" THEN "done" ELSE "raised"
  /\ UNCHANGED <<worker, cesm, driver, njobs, ndone, ec, exitcode, build, entry,
                 varlist, plotargs, labels, variables, plots, xaxis,
                 nticks>>

\* the values a caller passes as ticks, as n and as loverlap
TickArgs == {TickTrue, TickFalse, TickList(<<"a", "b">>), TickTuple(<<"a">>), TickOther}

TickNs == {NoN, 2, 3}

\* a call of xTickLabels(xticks, n, loverlap) on an axes  (lines 372-379)
XTickLabels ==
  /\ ppc = "axes"
  /\ nticks < MaxTickCalls
  /\ \E t \in TickArgs, n \in TickNs, lo \in BOOLEAN :
       tick' = AxisTickLabels("x", t, n, lo, xaxis, yaxis)
  /\ xaxis' = tick'.ax
  /\ nticks' = nticks + 1
  /\ UNCHANGED <<worker, cesm, driver, njobs, ndone, ec, exitcode, build, entry,
                 varlist, plotargs, labels, variables, plots, ppc, yaxis>>

\* a call of yTickLabels(yticks, n, loverlap) on an axes  (lines 381-388)
YTickLabels ==
  /\ ppc = "axes"
  /\ nticks < MaxTickCalls
  /\ \E t \in TickArgs, n \in TickNs, lo \in BOOLEAN :
       tick' = AxisTickLabels("y", t, n, lo, yaxis, xaxis)
  /\ yaxis' = tick'.ax
  /\ nticks' = nticks + 1
  /\ UNCHANGED <<worker, cesm, driver, njobs, ndone, ec, exitcode, build, entry,
                 varlist, plotargs, labels, variables, plots, ppc, xaxis>>

\* the variables of a plot: a name and the name of the dataset ("None": no dataset)
PlotVars == [name : {"T2", "precip"}, dataset : {"None", "WRF", "CESM"}]

RECURSIVE SeqsUpTo(_, _)
SeqsUpTo(S, n) ==
  IF n = 0 THEN {<<>>}
  ELSE LET shorter == SeqsUpTo(S, n - 1)
       IN  shorter \cup {Append(q, x) : q \in {r \in shorter : Len(r) = n - 1}, x \in S}

VarLists == SeqsUpTo(PlotVars, MaxVars)

\* the tick labels an axis can have: up to MaxTicks labels, each visible or not
AxisStates ==
  UNION {[1..k -> [text : {"0"}, visible : BOOLEAN]] : k \in 0..MaxTicks}

DefaultAxis == [k \in 1..MaxTicks |-> [text |-> "0", visible |-> TRUE]]

NoPlotArgs == [xticks |-> TickTrue, yticks |-> TickTrue, len |-> 0]

\* ---------------------------------------------------------- specification
\* files an earlier batch may have left at the final path: a closed artifact or the
\* fragment of a crashed run
OldFiles ==
  [mtime : 0..MaxAge, size : {MinSize, MinSize + 1}, phase : {"closed", "data"}, ino : {0}]

\* the final paths of the job
FinalPaths(j) ==
  IF j.kind = "PE" THEN {FilePath(j)}
  ELSE {ClimFilePath(j, Periods(j)[i]) : i \in 1..Len(Periods(j))}

\* the output of the job as a run without ldebug names it
NonDebugPath(j) == AvgFolder(j) \o PatternFileName(j)

\* the output a run without ldebug has written
Artifact == [mtime |-> 0, size |-> MinSize + 1, phase |-> "closed", ino |-> 0]

\* a debug run finds the output of the job, and possibly the file of an earlier debug run
InitFS(j) ==
  IF j.ldebug
  THEN {[p \in {NonDebugPath(j)} |-> Artifact],
        [p \in {NonDebugPath(j), FilePath(j)} |-> Artifact]}
  ELSE {<<>>} \cup {[p \in {path} |-> rec] : path \in FinalPaths(j), rec \in OldFiles}

\* no run has been started
Quiet ==
  /\ now = MaxAge
  /\ srcm = [f \in {FileList[i] : i \in 1..Len(FileList)} |-> 0]
  /\ ntouch = 0
  /\ touchrun = 0
  /\ nruns = 0
  /\ pc = [w \in Slots |-> "idle"]
  /\ rid = [w \in Slots |-> 0]
  /\ sourceage = [w \in Slots |-> -1]
  /\ lskip = [w \in Slots |-> FALSE]
  /\ idx = [w \in Slots |-> 0]
  /\ ops = [w \in Slots |-> <<>>]
  /\ hit = [w \in Slots |-> {}]
  /\ result = [w \in Slots |-> "none"]
  /\ retval = [w \in Slots |-> "-"]
  /\ err = [w \in Slots |-> "-"]
  /\ fs0 = [w \in Slots |-> <<>>]
  /\ it0 = [w \in Slots |-> <<>>]
  /\ prev = [w \in Slots |-> [result |-> "none", retval |-> "-"]]
  /\ sink = [w \in Slots |-> NoSink]

Init ==
  /\ job \in Jobs
  /\ fs \in InitFS(job)
  /\ Quiet
  /\ NoCESM
  /\ NoBatch

Next ==
  \/ \E w \in Slots :
       \/ StartJob(w)
       \/ Exists1(w)
       \/ GetMTime(w)
       \/ GetSize(w)
       \/ Remove1(w)
       \/ Skip(w)
       \/ TmpExists(w)
       \/ TmpRemove(w)
       \/ Create(w)
       \/ ShapeAverage(w)
       \/ CPUSync(w)
       \/ SinkSync(w)
       \/ Close(w)
       \/ Exists2(w)
       \/ Remove2(w)
       \/ RenameTmp(w)
       \/ Return(w)
       \/ StartClim(w)
       \/ EndClim(w)
       \/ ClimPeriod(w)
       \/ ClimExists(w)
       \/ ClimGetMTime(w)
       \/ ClimRemove(w)
       \/ ClimSkip(w)
       \/ ClimNext(w)
       \/ ClimCreate(w)
       \/ Climatology(w)
       \/ ClimCPUSync(w)
       \/ ClimAnnotate(w)
       \/ ClimSinkSync(w)
       \/ ClimClose(w)
       \/ Crash(w)
  \/ \E files \in (SUBSET DOMAIN srcm) \ {{}} : TouchSource(files)

Spec == Init /\ [][Next]_vars

\* the two batch drivers, with batches of up to MaxJobs jobs
InitBatch ==
  /\ job = NoJob
  /\ fs = <<>>
  /\ Quiet
  /\ NoCESM
  /\ driver \in {"shpavg", "wrfavg"}
  /\ njobs \in 0..MaxJobs
  /\ ndone = 0
  /\ ec = 0
  /\ exitcode = -1
  /\ NoBuild
  /\ NotCalled
  /\ NoAxes

NextBatch == JobSucceeds \/ JobFails \/ Exit

SpecBatch == InitBatch /\ [][NextBatch]_vars

\* the functions of datasets/CESM.py, called with every combination of arguments, and the
\* script of the module (mode = 'pickle_grid')
InitCESM ==
  /\ job = NoJob
  /\ fs = <<>>
  /\ Quiet
  /\ NoBatch
  /\ dirs \in SUBSET Folders
  /\ cres = NoResult
  /\ \/ cargs \in CallArgs /\ NoScript
     \/ /\ cargs = NoCall
        /\ zipped \in Zipped /\ spc = "load" /\ sidx = 1
        /\ heap = <<>> /\ dataset = [griddef |-> 0] /\ griddef = 0
        /\ pickles \in OldPickles

NextCESM ==
  \/ CallGetFolderName
  \/ CallLoadCESM
  \/ ScriptLoad
  \/ ScriptAssign
  \/ ScriptExists
  \/ ScriptRemove
  \/ ScriptDump
  \/ ScriptClose
  \/ ScriptReload

SpecCESM == InitCESM /\ [][NextCESM]_vars

\* the shpavg script builds its argument list
InitArgs ==
  /\ job = NoJob
  /\ fs = <<>>
  /\ Quiet
  /\ NoCESM
  /\ driver = "none" /\ njobs = 0 /\ ndone = 0 /\ ec = 0 /\ exitcode = -1
  /\ NotCalled
  /\ NoAxes
  /\ conf \in Confs
  /\ args = <<>>
  /\ bpc = [stage |-> "mode", m |-> 1, i |-> 0]

NextArgs == BuildMode \/ BuildObs \/ BuildCESM \/ BuildWRF

SpecArgs == InitArgs /\ [][NextArgs]_vars

\* performExtraction is called, once or again with the same arguments
InitCall ==
  /\ job = NoJob
  /\ fs = <<>>
  /\ Quiet
  /\ NoCESM
  /\ driver = "none" /\ njobs = 0 /\ ndone = 0 /\ ec = 0 /\ exitcode = -1
  /\ NoBuild
  /\ NoAxes
  /\ pargs \in CallJobs
  /\ dargs = DataArgs(pargs.dataset)
  /\ apc = "check"
  /\ aperiod = PeriodNone
  /\ alog = <<>>
  /\ aerr = "-"

NextCall == CallCheck \/ CallPeriod \/ CallLoad \/ CallAgain

SpecCall == InitCall /\ [][NextCall]_vars

\* a fresh axes: either linePlot is called on it with a list of variables, or
\* xTickLabels and yTickLabels are called on it directly
InitAxes ==
  /\ job = NoJob
  /\ fs = <<>>
  /\ Quiet
  /\ NoCESM
  /\ driver = "none" /\ njobs = 0 /\ ndone = 0 /\ ec = 0 /\ exitcode = -1
  /\ NoBuild
  /\ NotCalled
  /\ labels = <<>>
  /\ variables = EmptyDict
  /\ plots = EmptyDict
  /\ tick = NoTick
  /\ nticks = 0
  /\ \/ /\ ppc = "labels"
        /\ varlist \in VarLists
        /\ plotargs \in [xticks : TickArgs, yticks : TickArgs, len : {2}]
        /\ xaxis = DefaultAxis
        /\ yaxis = DefaultAxis
     \/ /\ ppc = "axes"
        /\ varlist = <<>>
        /\ plotargs = NoPlotArgs
        /\ xaxis \in AxisStates
        /\ yaxis \in AxisStates

NextAxes ==
  \/ LinePlotLabels
  \/ LinePlotLines
  \/ LinePlotXTicks
  \/ LinePlotYTicks
  \/ XTickLabels
  \/ YTickLabels

SpecAxes == InitAxes /\ [][NextAxes]_vars

\* ------------------------------------------------------------------ claims
Mem(x, seq) == \E i \in 1..Len(seq) : seq[i] = x

\* positions of performExtraction behind the decision on lskip
Decided ==
  {"skip", "remove1", "tmpexists", "tmpremove", "create", "ShapeAverage", "CPUsync",
   "sinksync", "close", "exists2", "remove2", "rename", "return"}

\* the run in slot w has decided on lskip, or has ended by itself
PastDecision(w) ==
  \/ pc[w] \in Decided
  \/ pc[w] = "idle" /\ result[w] \in {"skipped", "returned"}

\* the final output file as the run in slot w found it
Found(w) == IF FilePath(job) \in DOMAIN fs0[w] THEN fs0[w][FilePath(job)] ELSE NoFile

\* C1: in performExtraction with lwrite=True (one process at a time) a run is skipped if and
\* only if the overwrite flag is unset, the final output file exists, its modification time
\* is later than sourceage and its size exceeds 1e6 bytes; in every other case in which the
\* final output file exists it is removed before the new sink is created; and a run with the
\* overwrite flag set is never skipped.
C1_SkipIff ==
  /\ \A w \in Slots :
       (job.kind = "PE" /\ job.lwrite /\ ~job.lparallel /\ PastDecision(w)) =>
         /\ lskip[w] <=> ( /\ ~job.loverwrite
                           /\ Found(w) # NoFile
                           /\ Found(w).mtime > sourceage[w]
                           /\ Found(w).size > 1000000 )
         /\ (result[w] = "skipped") <=> (lskip[w] /\ pc[w] = "idle")
         /\ (~lskip[w] /\ Found(w) # NoFile /\ pc[w] # "remove1") =>
              /\ ops[w] # <<>> /\ Head(ops[w]) = "remove"
              /\ FilePath(job) \in hit[w]
         /\ pc[w] = "create" => ~Exists(FilePath(job))
  /\ \A w \in Slots :
       (job.kind = "PE" /\ job.loverwrite) => (~lskip[w] /\ result[w] # "skipped")

\* a run has been skipped, another has removed the old file and is about to create its sink
C1_Witness ==
  /\ job.kind = "PE" /\ job.lwrite /\ ~job.lparallel /\ ~job.loverwrite
  /\ prev[1].result = "skipped"
  /\ pc[1] = "create" /\ Found(1) # NoFile /\ Head(ops[1]) = "remove"

\* C2: sourceage is the most recent modification time among the files of the source's
\* filelist, so that with overwrite unset no output is skipped while a source file
\* (modified before the run started) is newer than the existing output file.
C2_NeverSkipStale ==
  \A w \in Slots :
    (pc[w] \in {"skip", "cc_skip"} /\ touchrun < rid[w]) =>
      \A f \in DOMAIN srcm : srcm[f] <= fs[FinalPath(w)].mtime

\* a final path holds a partially written file of a run
PartialAtFinal ==
  \E p \in FinalPaths(job) : Exists(p) /\ fs[p].ino # 0 /\ Partial(fs[p])

SecondRunEnded ==
  /\ ~job.lparallel /\ job.lwrite /\ ~job.loverwrite
  /\ nruns >= 2 /\ prev[1].result = "returned" /\ touchrun < nruns - 1
  /\ pc[1] = "idle" /\ result[1] \in {"skipped", "returned", "raised"}

\* the run that has ended computed nothing and left the file system as it found it:
\* performExtraction ended in a skip, computeClimatology skipped every period in range
RunWasSkip ==
  /\ fs = fs0[1]
  /\ ~Mem("DatasetNetCDF", ops[1]) /\ ~Mem("remove", ops[1])
  /\ job.kind = "PE" => result[1] = "skipped"
  /\ job.kind = "CC" => result[1] = "returned"

\* C4 (as claimed): running the same job twice in succession with overwrite disabled and
\* unchanged source files computes once; the second run is a skip and leaves the output file
\* and its modification time unchanged, whatever the size of the output.
C4_IdempotentAnySize == SecondRunEnded => RunWasSkip

\* C4 (amended): the same, for computeClimatology whatever the size of the output, and for
\* performExtraction when the output of the first run is larger than 1e6 bytes.
C4_IdempotentAboveThreshold ==
  (SecondRunEnded /\ (job.kind = "PE" => job.outsize > 1000000)) => RunWasSkip

\* the second run of performExtraction has been skipped after a first run that computed
C4_Witness ==
  /\ SecondRunEnded /\ job.kind = "PE" /\ result[1] = "skipped"
  /\ Exists(FilePath(job)) /\ fs[FilePath(job)].ino = 1

\* C5: in every worker (performExtraction and computeClimatology) an output is skipped only
\* if the existing output file is larger than the minimum plausible size; an existing output
\* file that is not is removed and recomputed.
C5_SkipOnlyAboveThreshold ==
  \A w \in Slots :
    pc[w] \in {"skip", "cc_skip"} =>
      (Exists(FinalPath(w)) /\ fs[FinalPath(w)].size > 1000000)

\* C6: in a run of performExtraction with lwrite=True and lreturn=False that is not skipped,
\* the temporary file is renamed to the final path only after ShapeAverage, CPU.sync,
\* sink.sync and sink.close have completed, in that order, and the rename is the last
\* modification of the file system by the run.
C6_CommitOrder ==
  \A w \in Slots :
    (job.kind = "PE" /\ (pc[w] = "return" \/ Mem("rename", ops[w]))) =>
      IF job.lreturn THEN ~Mem("rename", ops[w])
      ELSE LET n == Len(ops[w])
           IN /\ ops[w][n] = "rename"
              /\ \E a \in 1..n :
                   /\ ops[w][a] = "ShapeAverage"
                   /\ \E b \in (a + 1)..n :
                        /\ ops[w][b] = "CPU.sync"
                        /\ \E c \in (b + 1)..n :
                             /\ ops[w][c] = "sink.sync"
                             /\ \E d \in (c + 1)..(n - 1) : ops[w][d] = "sink.close"
              /\ \A i \in 1..n : ops[w][i] = "rename" => i = n
              /\ Exists(FilePath(job)) => fs[FilePath(job)].phase = "closed"

\* a run has renamed its temporary file and returned
C6_Witness ==
  \E w \in Slots :
    /\ job.kind = "PE" /\ ~job.lreturn
    /\ pc[w] = "idle" /\ result[w] = "returned" /\ Mem("rename", ops[w])
    /\ Exists(FilePath(job)) /\ fs[FilePath(job)].ino = rid[w]

\* C7: two jobs that run at the same time (parallel mode, different pool slots, that is
\* different pidstr) write to different temporary paths, also when they target the same final
\* path, and no job removes or writes the temporary file of another running job.
C7_TmpIsolation ==
  \A v, w \in Slots :
    (v # w /\ job.kind = "PE" /\ job.lparallel /\ Running(v) /\ Running(w)) =>
      /\ SinkPath(v) # SinkPath(w)
      /\ SinkPath(w) \notin hit[v]
      /\ Exists(SinkPath(w)) => fs[SinkPath(w)].ino = rid[w]

\* two runs with the same final path have their temporary files open at the same time
C7_Witness ==
  /\ job.kind = "PE" /\ job.lparallel
  /\ pc[1] = "CPUsync" /\ pc[2] = "sinksync"
  /\ Exists(TmpFilePath(job, 1)) /\ Exists(TmpFilePath(job, 2))
  /\ FinalPath(1) = FinalPath(2)

\* C8: two performExtraction jobs that run at the same time against the same final output
\* path both finish, in any interleaving of their exists/remove/rename steps, without an
\* error caused by the other job, and the final path then holds one complete artifact.
C8_NoInterference ==
  (job.kind = "PE" /\ job.lparallel /\ job.lwrite /\ ~job.lreturn) =>
    /\ \A w \in Slots : result[w] # "raised"
    /\ (\A w \in Slots : pc[w] = "idle" /\ result[w] = "returned") =>
         (Exists(FilePath(job)) /\ Complete(fs[FilePath(job)]))

\* C9: every run of performExtraction that does not raise returns 0 when lreturn=False and
\* the sink dataset when lreturn=True, also when it ends in a staleness skip.
C9_ReturnValue ==
  \A w \in Slots :
    (job.kind = "PE" /\ pc[w] = "idle" /\ result[w] \in {"returned", "skipped"}) =>
      retval[w] = IF job.lreturn THEN "sink" ELSE "0"

\* calls that construct a sink or a processing unit, or work on them
SinkCalls ==
  {"remove", "rename", "DatasetNetCDF", "CPU", "ShapeAverage", "Climatology", "CPU.sync",
   "sink.axisAnnotation", "sink.addVariable", "sink.sync", "sink.close"}

\* C10: skipping an output (in performExtraction or computeClimatology) changes nothing on
\* the file system: no file is removed, created, written or renamed, and no sink dataset or
\* processing unit is constructed; the only effect is the logged skip message.
C10_SkipChangesNothing ==
  \A w \in Slots :
    lskip[w] =>
      /\ hit[w] = {}
      /\ \A i \in 1..Len(IterOps(w)) : IterOps(w)[i] \notin SinkCalls
      /\ ~job.lparallel => fs = it0[w]
      /\ pc[w] \notin {"skip", "cc_skip"} => IterOps(w)[Len(IterOps(w))] = "log.skip"

\* computeClimatology has computed the output of its first period and skipped that of its
\* second
C10_Witness ==
  /\ job.kind = "CC" /\ lskip[1] /\ pc[1] = "cc_next" /\ idx[1] = 2
  /\ Mem("sink.close", ops[1])

\* the run in slot w has ended with exception exc before it made any call on the file
\* system (the modification times of the source files included)
FailedEarly(w, exc) ==
  /\ result[w] = "raised" /\ err[w] = exc
  /\ ops[w] = <<>> /\ hit[w] = {} /\ fs = fs0[w] /\ sourceage[w] = -1

\* C11: performExtraction called with a dataset identifier that names no known dataset
\* (neither 'WRF', 'CESM' nor an existing observational dataset) ends with a DatasetError at
\* argument resolution, before any file is read, removed or created.
C11_UnknownDatasetError ==
  \A w \in Slots :
    ( /\ job.kind = "PE"
      /\ job.dataset \notin ({"WRF", "CESM"} \cup Observational)
      /\ pc[w] = "idle" /\ result[w] # "none" ) =>
      FailedEarly(w, "DatasetError")

\* the call identifies the experiment by a name that is no key of the registry exps
UnregisteredName ==
  /\ cargs # NoCall
  /\ \/ cargs.experiment = None /\ cargs.name.t = "str" /\ cargs.name.v \notin ExpsKeys
     \/ cargs.experiment.t = "str" /\ cargs.experiment.v \notin ExpsKeys

\* C12: getFolderName (and therefore loadCESM) ends with a DatasetError whenever the
\* experiment is identified by a name that is not an entry of the experiment registry,
\* whether the name is passed as name or as experiment, and does so before it checks or
\* touches any folder.
C12_UnregisteredIsDatasetError ==
  (UnregisteredName /\ cres # NoResult) => (cres.exc = "DatasetError" /\ cres.probed = {})

\* the block of the i-th requested period lies within the years of the source
BlockInFile(i) ==
  /\ job.years[1] <= BeginDate(job) /\ BeginDate(job) <= job.years[2]
  /\ job.years[1] <= EndDate(job, Periods(job)[i])
  /\ EndDate(job, Periods(job)[i]) <= job.years[2]

\* the number of times call occurs in log
RECURSIVE Count(_, _)
Count(log, call) ==
  IF log = <<>> THEN 0
  ELSE (IF Head(log) = call THEN 1 ELSE 0) + Count(Tail(log), call)

PeriodMismatch == job.srcperiod.has /\ LoadPeriodStr(job) # job.srcperiod.val

\* C14: for every kind of dataset (WRF, CESM, observational) performExtraction ends with a
\* DateError when the requested period string differs from the period recorded in the
\* period attribute of the loaded source, before any output file is removed or created.
C14_PeriodMismatchDateError ==
  \A w \in Slots :
    ( /\ job.kind = "PE" /\ ~job.lparallel
      /\ job.dataset \in ({"WRF", "CESM"} \cup Observational)
      /\ PeriodMismatch
      /\ pc[w] = "idle" /\ result[w] \notin {"none", "killed"} ) =>
      FailedEarly(w, "DateError")

\* C15: the sink written by performExtraction carries the attribute period equal to the
\* covered period string '{begin:4d}-{end:4d}' for a climatology job with a period, and
\* 'time-series' for a time-series job (which has no period), for every kind of dataset (WRF,
\* CESM, observational); and the attribute shapes equals the name of the shape group.
C15_SinkAttributes ==
  \A w \in Slots :
    (job.kind = "PE" /\ sink[w] # NoSink) =>
      /\ sink[w].shapes = job.shape_name
      /\ (job.mode = "climatology" /\ ~job.pnone) =>
           sink[w].period = Fmt4d(Period(job)[1]) \o "-" \o Fmt4d(Period(job)[2])
      /\ (job.mode = "time-series" /\ job.pnone) => sink[w].period = "time-series"

\* positions of computeClimatology at which the sink of the current period exists
SinkMade == {"cc_climatology", "cc_cpusync", "cc_annotate", "cc_sinksync", "cc_close"}

\* C16: for each requested period with begin+offset+period <= end year of the source,
\* computeClimatology produces one output whose period attribute is '{b:4d}-{e:4d}' with
\* b = begin year of the source + offset and e = b + period ('1979-1989' for a source that
\* begins in 1979, period=10 and offset=0); a period that is out of range does not keep the
\* other requested periods from being processed.
C16_PeriodOutputs ==
  \A w \in Slots :
    (job.kind = "CC" /\ ~job.pnone) =>
      /\ pc[w] \in SinkMade =>
           LET period == job.periods[idx[w]]
               b == job.years[1] + job.offset
               e == b + period
           IN /\ e <= job.years[2]
              /\ sink[w].period = ToString(b) \o "-" \o ToString(e)
              /\ (job.years[1] = 1979 /\ period = 10 /\ job.offset = 0) =>
                   sink[w].period = "1979-1989"
              /\ Exists(FinalPath(w)) /\ fs[FinalPath(w)].ino = rid[w]
              /\ Count(IterOps(w), "DatasetNetCDF") = 1
      /\ (pc[w] = "idle" /\ result[w] = "returned") =>
           \A i \in 1..Len(job.periods) :
             (job.years[1] + job.offset + job.periods[i] <= job.years[2]) =>
               Exists(ClimFilePath(job, job.periods[i]))

\* asked for the periods 10 and 5 at offset 5, the run has logged the first as invalid and
\* is about to close the sink of the second
C16_Witness ==
  /\ job.kind = "CC" /\ job.offset = 5 /\ job.periods = <<10, 5>>
  /\ pc[1] = "cc_close" /\ idx[1] = 2
  /\ Mem("log.invalid", ops[1])
  /\ sink[1].period = "1984-1989"

\* C17: each batch driver (the main of shpavg and of wrfavg) exits with code 0 exactly when
\* no job failed; when ec > 0 of n jobs failed the exit code is non-zero, lies in the bounded
\* range 11..20 (10 + ceil(10*ec/n)) and is non-decreasing in ec for fixed n.
C17_ExitCodeReflectsFailures ==
  exitcode # -1 =>
    /\ exitcode = 0 <=> ec = 0
    /\ ec > 0 =>
         /\ exitcode \in 11..20
         /\ exitcode - 10 >= (10 * ec) \div njobs
         /\ exitcode - 11 < (10 * ec) \div njobs + 1
         /\ \A fewer \in 0..ec : ExitCode(driver, fewer, njobs) <= exitcode

\* C18: with lwrite=False and lreturn=True (in a single process) performExtraction builds the
\* sink in memory only and returns it, without raising and without reading, creating or
\* removing any output file or folder.
C18_InMemorySink ==
  \A w \in Slots :
    ( /\ job.kind = "PE" /\ ~job.lwrite /\ job.lreturn /\ ~job.lparallel
      /\ pc[w] = "idle" /\ result[w] \notin {"none", "killed"} ) =>
      /\ result[w] = "returned" /\ retval[w] = "sink"
      /\ hit[w] = {} /\ fs = fs0[w]

\* calls that add variables to the sink
Appends == {"ShapeAverage", "Climatology", "sink.axisAnnotation", "sink.addVariable"}

\* calls that may follow sink.sync(): the write message, the closing of the sink and the
\* replacement of the old file by the new one
AfterSinkSync == {"log.write", "sink.close", "remove", "rename"}

\* C19 (as claimed): within a job (performExtraction or computeClimatology), after the final
\* CPU.sync(flush=True) no further variable is appended to the sink.
C19_SealedAfterCPUSync ==
  \A w \in Slots :
    LET it == IterOps(w)
    IN \A i \in 1..Len(it) :
         it[i] = "CPU.sync" => \A k \in (i + 1)..Len(it) : it[k] \notin Appends

\* C19 (amended): within a job, after sink.sync() no further variable is appended to the
\* sink: only the write message, close and (for performExtraction) the removal of the old
\* file and the rename follow.  In performExtraction nothing is appended after CPU.sync
\* either; in computeClimatology the names and the length of the months are appended between
\* CPU.sync and sink.sync.
C19_SealedAfterSinkSync ==
  \A w \in Slots :
    LET it == IterOps(w)
    IN \A i \in 1..Len(it) :
         it[i] \in {"sink.sync", "CPU.sync", "sink.close"} =>
           \A k \in (i + 1)..Len(it) :
             /\ it[i] = "sink.sync" => it[k] \in AfterSinkSync
             /\ (job.kind = "PE" /\ it[i] = "CPU.sync") => it[k] \notin Appends
             /\ (job.kind = "CC" /\ it[i] = "sink.close")
                  => it[k] \notin {"sink.axisAnnotation", "sink.addVariable"}

\* computeClimatology has added length_of_month after CPU.sync and synced and closed the sink
C19_Witness ==
  /\ job.kind = "CC" /\ pc[1] = "cc_next" /\ ~lskip[1]
  /\ \E i, k \in 1..Len(IterOps(1)) :
       i < k /\ IterOps(1)[i] = "CPU.sync" /\ IterOps(1)[k] = "sink.addVariable"
  /\ IterOps(1)[Len(IterOps(1))] = "sink.close"

\* C20: a GridDefinition is immutable: no field of a GridDefinition object (its name
\* included) is assigned after the object has been constructed, in any worker or script; in
\* particular, pickling a grid definition does not alter the grid definition held by the
\* dataset it came from.
C20_GridDefinitionImmutable ==
  /\ \A o \in 1..Len(heap) : heap[o].writes = 0 /\ heap[o].name = heap[o].made
  /\ (spc \in {"reload", "done"} /\ dataset.griddef # 0) =>
       heap[dataset.griddef].name = heap[dataset.griddef].made

\* the pair of the loop has been pickled and reloaded: dataset.griddef is the object that was
\* pickled and griddef the one loadPickledGridDef returned
Reloaded == sidx > 1 /\ spc \in {"load", "done"}

C22_EachJobOnce ==
  bpc.stage = "done" => \A i, k \in 1..Len(args) : args[i] = args[k] => i = k

\* the output the run in slot w is at was left unfinished by the run before it, which was
\* interrupted while it wrote the file (the sources have not been modified since that run
\* started)
LeftUnfinished(w) ==
  /\ ~job.lparallel /\ nruns >= 2
  /\ prev[w].result = "killed" /\ touchrun < nruns - 1
  /\ FinalPath(w) \in DOMAIN fs0[w]
  /\ fs0[w][FinalPath(w)].ino = rid[w] - 1
  /\ fs0[w][FinalPath(w)].phase \in {"stub", "data"}

\* C23: if a recomputing run of a worker (performExtraction with any lreturn setting, or
\* computeClimatology) is interrupted at any step before it completes, then a later run of
\* the same job with overwrite disabled and unchanged sources is not skipped: it recomputes
\* and publishes a complete artifact.
C23_CrashRecovery ==
  \A w \in Slots :
    (~job.loverwrite /\ pc[w] \in {"skip", "cc_skip"}) => ~LeftUnfinished(w)

\* C24: performExtraction leaves its arguments unchanged: after any call (successful, skipped
\* or failed) the caller's dataargs dictionary holds the same keys and values as before the
\* call, so re-invoking the same job with the same argument bundle loads the source with the
\* same options.
C24_DataArgsUnchanged ==
  apc \in {"raised", "loaded"} => dargs = DataArgs(pargs.dataset)

\* the call has passed the input checks and has a branch to take
Entered ==
  /\ InputError(pargs) = "-"
  /\ Branch(pargs.dataset) # "none"
  /\ Branch(pargs.dataset) = "obs" => pargs.dataset \in Observational

\* a period that is neither None, nor an integer, nor a sequence of exactly two integers
InvalidPeriod(p) == ~(p.k \in {"None", "int"} \/ (p.k = "seq" /\ p.len = 2 /\ p.ints))

\* C26: in performExtraction, a period argument that is neither None, nor an integer, nor a
\* sequence of exactly two integers is rejected with a DateError before the source is loaded,
\* identically for the WRF, CESM and observational branches.
C26_InvalidPeriodRejected ==
  (Entered /\ InvalidPeriod(pargs.period) /\ apc \in {"load", "loaded", "raised"}) =>
    (apc = "raised" /\ aerr = "DateError" /\ alog = <<>>)

\* the call has ended at the input checks: nothing was loaded and the dictionary is as it was
RejectedWith(exc) ==
  /\ apc = "raised" /\ aerr = exc
  /\ alog = <<>> /\ dargs = DataArgs(pargs.dataset) /\ fs = <<>>

\* C27: performExtraction rejects parallel mode combined with lwrite=False or with
\* lreturn=True by raising IOError, and rejects a non-string dataset, a non-dict dataargs or a
\* non-OrderedDict shape_dict with TypeError; in all these cases the error is raised before
\* the source is loaded and before any file is removed or created.
C27_InputsRejected ==
  LET badtype == \/ pargs.dataset_t # "str"
                 \/ pargs.dataargs_t # "dict"
                 \/ pargs.shape_dict_t # "OrderedDict"
      badmode == pargs.lparallel /\ (~pargs.lwrite \/ pargs.lreturn)
  IN apc \notin {"none", "check"} =>
       /\ badtype => RejectedWith("TypeError")
       /\ (~badtype /\ badmode) => RejectedWith("IOError")

\* a call in parallel mode with lreturn=True has been rejected
C27_Witness ==
  /\ pargs.lparallel /\ pargs.lwrite /\ pargs.lreturn
  /\ pargs.dataset = "WRF" /\ RejectedWith("IOError")

\* periodstr of the whole remaining range: from begin year + offset to the end year
WholeRange(j) == ToString(j.years[1] + j.offset) \o "-" \o ToString(j.years[2])

\* C25: computeClimatology called with periods=None computes exactly one climatology covering
\* the whole remaining range of the source, from begin year + offset to the source's end
\* year, and does not raise a DateError when the source covers at least one year.
C25_PeriodsNoneWholeRange ==
  \A w \in Slots :
    (job.kind = "CC" /\ job.pnone /\ job.years[1] + job.offset < job.years[2]) =>
      /\ ~(result[w] = "raised" /\ err[w] = "DateError")
      /\ pc[w] \in SinkMade => sink[w].period = WholeRange(job)
      /\ (pc[w] = "idle" /\ result[w] = "returned") =>
           Exists("wrfavg/max-ctrl/wrfsrfc_d01_clim_" \o WholeRange(job) \o ".nc")

\* the file name of path p in folder starts with prefix
NameStartsWith(p, folder, prefix) ==
  /\ Len(p) >= Len(folder) + Len(prefix)
  /\ SubSeq(p, 1, Len(folder)) = folder
  /\ SubSeq(p, Len(folder) + 1, Len(folder) + Len(prefix)) = prefix

\* path p is a file of a debug run in slot w: 'test_...' or 'tmp_..._test_...'
DebugPath(p, w) ==
  \/ NameStartsWith(p, AvgFolder(job), "test_")
  \/ NameStartsWith(p, AvgFolder(job), TmpPfx(job, w) \o "test_")

\* C28: a run of performExtraction with ldebug=True and lwrite=True only ever tests, removes,
\* writes or renames paths whose file name starts with 'test_' (or its temporary
\* 'tmp_..._test_' form); the non-debug output artifact of the same job is never removed or
\* modified.
C28_DebugIsolation ==
  (job.kind = "PE" /\ job.ldebug /\ job.lwrite) =>
    /\ \A w \in Slots :
         /\ \A p \in hit[w] : DebugPath(p, w)
         /\ pc[w] \in {"exists1", "getmtime", "getsize", "remove1", "exists2", "remove2"} =>
              DebugPath(FilePath(job), w)
         /\ pc[w] \in {"tmpexists", "tmpremove", "create", "rename"} =>
              DebugPath(TmpFilePath(job, w), w)
    /\ Exists(NonDebugPath(job)) /\ fs[NonDebugPath(job)] = Artifact

\* a debug run has replaced the file of an earlier debug run and returned; the output of the
\* job is still there
C28_Witness ==
  /\ job.kind = "PE" /\ job.ldebug /\ job.loverwrite
  /\ pc[1] = "idle" /\ result[1] = "returned"
  /\ Mem("remove", ops[1]) /\ Mem("rename", ops[1])
  /\ Exists(FilePath(job)) /\ fs[FilePath(job)].ino = rid[1]
  /\ Exists(NonDebugPath(job))

\* C29: after linePlot without explicit labels has saved the variables and drawn the
\* lines, the labels of _getPlotLabels are pairwise distinct, and self.variables and
\* self.plots hold exactly one entry per plotted variable.
C29_DistinctPlotLabels ==
  ppc \in {"xticks", "yticks", "done", "raised"} =>
    /\ \A k, m \in 1..Len(labels) : k # m => labels[k] # labels[m]
    /\ Cardinality(DOMAIN variables) = Len(varlist)
    /\ Cardinality(DOMAIN plots) = Len(varlist)

\* C30: a call of xTickLabels or yTickLabels with ticks=True returns the current tick
\* labels, with ticks=False hides every tick label and returns an empty list, with a list
\* or tuple installs those labels, and none of these raises; any other value raises
\* ValueError.
C30_TickLabels ==
  (tick.fn # "none" /\ tick.exc # "UnboundLocalError") =>
    LET ax == IF tick.fn = "x" THEN xaxis ELSE yaxis
    IN  CASE tick.ticks.k = "True" ->
               /\ tick.exc = "-"
               /\ tick.ret = [k \in 1..Len(tick.before) |-> k]
          [] tick.ticks.k = "False" ->
               /\ tick.exc = "-"
               /\ tick.ret = <<>>
               /\ \A k \in 1..Len(ax) : ~ ax[k].visible
          [] tick.ticks.k \in {"list", "tuple"} ->
               /\ tick.exc = "-"
               /\ [k \in 1..Len(ax) |-> ax[k].text] = tick.ticks.v
          [] OTHER -> tick.exc = "ValueError"

====
